---------------------------- MODULE Spec2Model ----------------------------
(***************************************************************************)
(* pin-github-actions (src/main.go): the occurrence extractor, the version *)
(* resolver with its policy fallback chain, the concurrent resolution      *)
(* orchestrator with its cache, the rewrite engine, and main with its      *)
(* flags, confirmation prompt, file write and exit code.                   *)
(*                                                                         *)
(* Text is a sequence of one-character strings.  Offsets are the Go byte   *)
(* offsets (0-based, half-open), so content[a:b] is Slice(content, a, b).  *)
(***************************************************************************)
EXTENDS Integers, Sequences, FiniteSets, TLC

VARIABLES
    pc,           \* position of the main goroutine / of the driver of a specification
    content,      \* the document read from the workflow file
    occurrences,  \* []ActionOccurrence
    actionInfos,  \* []ActionInfo
    updated,      \* the document returned by updateContent
    api,          \* the hosting API: "owner/repo" -> repository state
    effectivePolicy,  \* the run's UpdatePolicy
    expandMajorFlag,  \* the --expand-major flag
    reqRef,       \* the requestedRef handed to resolveActionForPolicy
    result,       \* what resolveActionForPolicy returned, with its API calls
    taskPc,       \* position of each goroutine of getActionInfosForOccurrences
    mu,           \* the goroutine holding the mutex (0: unlocked)
    cache,        \* cache key -> cacheEntry
    infos,        \* the infos slice of getActionInfosForOccurrences
    messages,     \* the messages slice of getActionInfosForOccurrences
    taskInfo,     \* each goroutine's local ActionInfo (ce.info or info)
    hist,         \* what each goroutine did (for the statement of the claims)
    printed,      \* the lines printed after wg.Wait()
    yesFlag,      \* the --yes flag
    writeFlag,    \* the --write flag
    dryRunFlag,   \* the --dry-run flag
    nArg,         \* flag.NArg(): the number of positional arguments
    workflowFile, \* the workflow file on disk
    token,        \* whether getGitHubToken finds a token
    stdin,        \* the line the user types at the confirmation prompt
    exitCode,     \* the exit code of the process (-1 while it runs)
    log,          \* what main did to the outside: file reads and writes, API use, prompts
    actions,      \* the discovered actions (extractActions)
    policyFlag    \* the value of the --policy flag

textVars == <<content, occurrences, actionInfos, updated>>
runVars  == <<api, effectivePolicy, expandMajorFlag>>
resVars  == <<reqRef, result>>
orchVars == <<taskPc, mu, cache, infos, messages, taskInfo, hist, printed>>
mainVars == <<yesFlag, writeFlag, dryRunFlag, nArg, workflowFile, token, stdin, exitCode, log,
              actions, policyFlag>>
vars == <<pc, content, occurrences, actionInfos, updated, api, effectivePolicy,
          expandMajorFlag, reqRef, result, taskPc, mu, cache, infos, messages,
          taskInfo, hist, printed, yesFlag, writeFlag, dryRunFlag, nArg, workflowFile,
          token, stdin, exitCode, log, actions, policyFlag>>

---------------------------------------------------------------------------
(* Bounds of the model *)

\* lines of a generated document
MaxLines == 2
\* tags of a generated tag listing
MaxTags == 5

---------------------------------------------------------------------------
(* Generic helpers *)

Max(S) == CHOOSE x \in S : \A y \in S : y <= x
Min(S) == CHOOSE x \in S : \A y \in S : x <= y

\* Go: content[i]
At(s, i) == s[i + 1]
\* Go: content[a:b]
Slice(s, a, b) == SubSeq(s, a + 1, b)

\* the characters matched by \s (RE2: [\t\n\f\r ]) that documents of the model use
WS == {" ", "\n", "\t"}
Digits == {"0", "1", "2", "3", "4", "5", "6", "7", "8", "9"}
HexLetters == {"a", "b", "c", "d", "e", "f", "A", "B", "C", "D", "E", "F"}
UpperLetters == <<"A", "B", "C", "D", "E", "F", "G", "H", "I", "J", "K", "L", "M",
                  "N", "O", "P", "Q", "R", "S", "T", "U", "V", "W", "X", "Y", "Z">>
LowerLetters == <<"a", "b", "c", "d", "e", "f", "g", "h", "i", "j", "k", "l", "m",
                  "n", "o", "p", "q", "r", "s", "t", "u", "v", "w", "x", "y", "z">>

\* end of the longest run of characters of `set` starting at offset i
RunIn(s, i, set) ==
    LET stops == {j \in i..(Len(s) - 1) : At(s, j) \notin set}
    IN  IF stops = {} THEN Len(s) ELSE Min(stops)
\* end of the longest run of characters outside `set` starting at offset i
RunNotIn(s, i, set) ==
    LET stops == {j \in i..(Len(s) - 1) : At(s, j) \in set}
    IN  IF stops = {} THEN Len(s) ELSE Min(stops)

\* strings.TrimSpace(s) == ""
IsBlank(s) == \A i \in 1..Len(s) : s[i] \in WS

NoError == "nil"

---------------------------------------------------------------------------
(* extractOccurrences *)

UsesLit == <<"u", "s", "e", "s", ":">>

HasPrefixAt(s, p, lit) ==
    /\ p + Len(lit) <= Len(s)
    /\ Slice(s, p, p + Len(lit)) = lit

NoMatch == [ok |-> FALSE, idxs |-> <<>>]

\* One attempt of the regular expression at offset p with \s+ taking k characters:
\*   uses:\s+([^@/]+/[^@\s]+)@([^\s#]+)(\s*#[^\n]*)?
\* Every other repetition is followed by a character outside its class (or by an
\* optional group), so its greedy, longest run is the only one that can match.
\* idxs is FindAllStringSubmatchIndex's <<m0, m1, g1s, g1e, g2s, g2e>>;
\* slash is the offset of the first "/" of group 1.
MatchWith(s, p, k) ==
    LET os == p + Len(UsesLit) + k
        oe == RunNotIn(s, os, {"@", "/"})
    IN  IF oe = os \/ oe >= Len(s) \/ At(s, oe) # "/" THEN NoMatch
        ELSE
        LET rs == oe + 1
            re == RunNotIn(s, rs, {"@"} \cup WS)
        IN  IF re = rs \/ re >= Len(s) \/ At(s, re) # "@" THEN NoMatch
            ELSE
            LET fs == re + 1
                fe == RunNotIn(s, fs, WS \cup {"#"})
            IN  IF fe = fs THEN NoMatch
                ELSE
                LET ce == RunIn(s, fe, WS)
                    me == IF ce < Len(s) /\ At(s, ce) = "#"
                          THEN RunNotIn(s, ce + 1, {"\n"})
                          ELSE fe
                IN  [ok |-> TRUE, idxs |-> <<p, me, os, re, fs, fe>>, slash |-> oe]

\* The leftmost-first match starting at offset p: \s+ is greedy, so the longest
\* whitespace run is tried first and shorter ones on backtracking.
MatchAt(s, p) ==
    IF ~HasPrefixAt(s, p, UsesLit) THEN NoMatch
    ELSE
    LET w  == RunIn(s, p + Len(UsesLit), WS) - (p + Len(UsesLit))
        ks == {k \in 1..w : MatchWith(s, p, k).ok}
    IN  IF ks = {} THEN NoMatch ELSE MatchWith(s, p, Max(ks))

\* faulty variant: only the first match is returned
FindFirstFrom(s, pos) ==
    LET starts == {p \in pos..(Len(s) - 1) : MatchAt(s, p).ok}
    IN  IF starts = {} THEN <<>> ELSE <<MatchAt(s, Min(starts))>>

\* re.FindAllStringSubmatchIndex(content, -1): successive non-overlapping
\* leftmost matches; the search resumes at the end of the previous match.
RECURSIVE FindAllFrom(_, _)
FindAllFrom(s, pos) ==
    LET starts == {p \in pos..(Len(s) - 1) : MatchAt(s, p).ok}
    IN  IF starts = {} THEN <<>>
        ELSE LET m == MatchAt(s, Min(starts))
             IN  <<m>> \o FindAllFrom(s, m.idxs[2])

\* what the loop of computeLineCol does over i := a; i < b; i++: n, the number
\* of times line++ runs, and lastNL, the last value given to lastNL (-1: none).
\* A longer stretch is the stretch of its first half followed by its second half.
LineColJoin(x, y) ==
    [n |-> x.n + y.n, lastNL |-> IF y.lastNL >= 0 THEN y.lastNL ELSE x.lastNL]

RECURSIVE LineColLoop(_, _, _)
LineColLoop(s, a, b) ==
    IF a >= b THEN [n |-> 0, lastNL |-> -1]
    ELSE IF b = a + 1
    THEN IF At(s, a) = "\n" THEN [n |-> 1, lastNL |-> a] ELSE [n |-> 0, lastNL |-> -1]
    ELSE LineColJoin(LineColLoop(s, a, (a + b) \div 2), LineColLoop(s, (a + b) \div 2, b))

\* line := 1; lastNL := -1; the loop; col := offset - lastNL
LineColAt(s, offset) ==
    [line |-> 1 + LineColLoop(s, 0, offset).n,
     col  |-> offset - LineColLoop(s, 0, offset).lastNL]

\* faulty variant: a negative offset is not raised to 0
ComputeLineColUnclamped(s, offset) ==
    LineColAt(s, IF offset > Len(s) THEN Len(s) ELSE offset)

\* computeLineCol: the offset is clamped into [0, len(content)]
ComputeLineCol(s, offset) ==
    LineColAt(s, IF offset < 0 THEN 0 ELSE IF offset > Len(s) THEN Len(s) ELSE offset)

\* faulty variant: the replace span ends at the end of the ref, before the comment
ReplaceEndAtRef(m) == m.idxs[6]

\* faulty variant: the replace span is empty
ReplaceEndAtStart(m) == m.idxs[4]

\* replaceEnd := matchEnd
ReplaceEndOf(m) == m.idxs[2]

\* the ActionOccurrence built from one match
OccurrenceOf(s, m) ==
    LET lc == ComputeLineCol(s, m.idxs[3])
    IN  [Owner        |-> Slice(s, m.idxs[3], m.slash),
         Repo         |-> Slice(s, m.slash + 1, m.idxs[4]),
         Action       |-> Slice(s, m.idxs[3], m.idxs[4]),
         RequestedRef |-> Slice(s, m.idxs[5], m.idxs[6]),
         MatchStart   |-> m.idxs[1],
         MatchEnd     |-> m.idxs[2],
         ReplaceStart |-> m.idxs[4],
         ReplaceEnd   |-> ReplaceEndOf(m),
         Line         |-> lc.line,
         Column       |-> lc.col]

ExtractOccurrences(s) ==
    LET ms == FindAllFrom(s, 0)
    IN  [i \in 1..Len(ms) |-> OccurrenceOf(s, ms[i])]

\* One attempt of the regular expression of extractActions at offset p with \s+
\* taking k characters:  uses:\s+([^@/]+/[^@\s]+)
\* The owner part ends at the first "/" and the repo part is the longest run
\* outside [@\s]; g1s, g1e delimit group 1 and m1 is the end of the match.
ActionMatchWith(s, p, k) ==
    LET os == p + Len(UsesLit) + k
        oe == RunNotIn(s, os, {"@", "/"})
    IN  IF oe = os \/ oe >= Len(s) \/ At(s, oe) # "/" THEN [ok |-> FALSE, g1s |-> 0, g1e |-> 0]
        ELSE IF RunNotIn(s, oe + 1, {"@"} \cup WS) = oe + 1
             THEN [ok |-> FALSE, g1s |-> 0, g1e |-> 0]
             ELSE [ok |-> TRUE, g1s |-> os, g1e |-> RunNotIn(s, oe + 1, {"@"} \cup WS)]

ActionMatchAt(s, p) ==
    IF ~HasPrefixAt(s, p, UsesLit) THEN [ok |-> FALSE, g1s |-> 0, g1e |-> 0]
    ELSE
    LET w  == RunIn(s, p + Len(UsesLit), WS) - (p + Len(UsesLit))
        ks == {k \in 1..w : ActionMatchWith(s, p, k).ok}
    IN  IF ks = {} THEN [ok |-> FALSE, g1s |-> 0, g1e |-> 0]
        ELSE ActionMatchWith(s, p, Max(ks))

\* re.FindAllStringSubmatch(content, -1): the group 1 of the successive matches
RECURSIVE FindAllActionsFrom(_, _)
FindAllActionsFrom(s, pos) ==
    LET starts == {p \in pos..(Len(s) - 1) : ActionMatchAt(s, p).ok}
    IN  IF starts = {} THEN <<>>
        ELSE LET m == ActionMatchAt(s, Min(starts))
             IN  <<Slice(s, m.g1s, m.g1e)>> \o FindAllActionsFrom(s, m.g1e)

\* faulty variant: an action already seen is listed again
AllAppearances(names, k) == SubSeq(names, k, Len(names))

\* the loop over the matches: an action already seen is skipped
RECURSIVE FirstAppearances(_, _)
FirstAppearances(names, k) ==
    IF k > Len(names) THEN <<>>
    ELSE IF \E j \in 1..(k - 1) : names[j] = names[k]
         THEN FirstAppearances(names, k + 1)
         ELSE <<names[k]>> \o FirstAppearances(names, k + 1)

\* extractActions
ExtractActions(s) == FirstAppearances(FindAllActionsFrom(s, 0), 1)

---------------------------------------------------------------------------
(* updateContent *)

\* faulty variant: a failed resolution is not skipped
SkipReplIgnoringError(occ, info) ==
    \/ IsBlank(info.SHA)
    \/ occ.ReplaceStart < 0
    \/ occ.ReplaceEnd <= occ.ReplaceStart
    \/ occ.RequestedRef = info.SHA

\* faulty variant: a commit equal to the current ref is not skipped
SkipReplWithoutSameRef(occ, info) ==
    \/ info.Error # NoError
    \/ IsBlank(info.SHA)
    \/ occ.ReplaceStart < 0
    \/ occ.ReplaceEnd <= occ.ReplaceStart

\* the conditions under which the loop `continue`s without a replacement
SkipRepl(occ, info) ==
    \/ info.Error # NoError
    \/ IsBlank(info.SHA)
    \/ occ.ReplaceStart < 0
    \/ occ.ReplaceEnd <= occ.ReplaceStart
    \/ occ.RequestedRef = info.SHA

\* fmt.Sprintf("@%s # %s", info.SHA, info.Version)
ReplText(info) == <<"@">> \o info.SHA \o <<" ", "#", " ">> \o info.Version

\* the repls slice, in occurrence order
RECURSIVE BuildRepls(_, _, _)
BuildRepls(occs, ainfos, i) ==
    IF i > Len(occs) THEN <<>>
    ELSE IF i > Len(ainfos) \/ SkipRepl(occs[i], ainfos[i])
         THEN BuildRepls(occs, ainfos, i + 1)
         ELSE <<[start |-> occs[i].ReplaceStart,
                 end   |-> occs[i].ReplaceEnd,
                 text  |-> ReplText(ainfos[i])]>>
              \o BuildRepls(occs, ainfos, i + 1)

\* sort.Slice by start ascending (the occurrences of extractOccurrences have
\* distinct starts, so the order is determined)
RECURSIVE SortRepls(_)
SortRepls(rs) ==
    IF Len(rs) <= 1 THEN rs
    ELSE LET rest == SortRepls(Tail(rs))
             n    == Cardinality({j \in 1..Len(rest) : rest[j].start < Head(rs).start})
         IN  SubSeq(rest, 1, n) \o <<Head(rs)>> \o SubSeq(rest, n + 1, Len(rest))

\* faulty variant: a replacement that starts before prev is applied too
RECURSIVE SpliceWithoutSkip(_, _, _, _)
SpliceWithoutSkip(s, rs, k, prev) ==
    IF k > Len(rs) THEN Slice(s, prev, Len(s))
    ELSE Slice(s, prev, rs[k].start) \o rs[k].text \o SpliceWithoutSkip(s, rs, k + 1, rs[k].end)

\* the rebuilding loop and the final copy of the remainder
RECURSIVE Splice(_, _, _, _)
Splice(s, rs, k, prev) ==
    IF k > Len(rs) THEN Slice(s, prev, Len(s))
    ELSE IF rs[k].start < prev THEN Splice(s, rs, k + 1, prev)
         ELSE Slice(s, prev, rs[k].start) \o rs[k].text \o Splice(s, rs, k + 1, rs[k].end)

UpdateContent(s, occs, ainfos) ==
    LET repls == BuildRepls(occs, ainfos, 1)
    IN  IF Len(repls) = 0 THEN s
        ELSE Splice(s, SortRepls(repls), 1, 0)

---------------------------------------------------------------------------
(* Refs: isFullSHA, isMovingMajorTag, parseMajor, semantic versions *)

\* isFullSHA: the length of a commit id
ShaLen == 40

IsFullSHA(s) ==
    /\ Len(s) = ShaLen
    /\ \A i \in 1..Len(s) : s[i] \in Digits \cup HexLetters

DigitVal(c) ==
    CASE c = "0" -> 0 [] c = "1" -> 1 [] c = "2" -> 2 [] c = "3" -> 3 [] c = "4" -> 4
      [] c = "5" -> 5 [] c = "6" -> 6 [] c = "7" -> 7 [] c = "8" -> 8 [] c = "9" -> 9

AllDigits(s) == Len(s) > 0 /\ \A i \in 1..Len(s) : s[i] \in Digits

RECURSIVE NatOf(_)
NatOf(ds) ==
    IF Len(ds) = 0 THEN 0
    ELSE 10 * NatOf(SubSeq(ds, 1, Len(ds) - 1)) + DigitVal(ds[Len(ds)])

RECURSIVE StripZeros(_)
StripZeros(ds) == IF Len(ds) > 1 /\ ds[1] = "0" THEN StripZeros(Tail(ds)) ELSE ds

\* Every number of up to 18 digits fits the 64-bit integers of strconv.Atoi and
\* of the semver parser and every number of 20 or more digits overflows them; a
\* number of exactly 19 digits (not used by the model) is taken to overflow.
MaxIntDigits == 18

\* strconv.Atoi on a string of digits: a range error on overflow
Atoi(ds) ==
    IF ~AllDigits(ds) \/ Len(StripZeros(ds)) > MaxIntDigits
    THEN [ok |-> FALSE, v |-> 0]
    ELSE [ok |-> TRUE, v |-> NatOf(StripZeros(ds))]

TrimPrefixV(s) == IF Len(s) > 0 /\ s[1] = "v" THEN Tail(s) ELSE s

\* regexp ^v?\d+$
IsMovingMajorTag(ref) == AllDigits(TrimPrefixV(ref))

\* strings.Split(s, ".")
RECURSIVE SplitDots(_)
SplitDots(s) ==
    LET dots == {i \in 1..Len(s) : s[i] = "."}
    IN  IF dots = {} THEN <<s>>
        ELSE <<SubSeq(s, 1, Min(dots) - 1)>> \o SplitDots(SubSeq(s, Min(dots) + 1, Len(s)))

\* semver.NewVersion (Masterminds/semver v3), the numeric part
\* v?MAJOR(.MINOR)?(.PATCH)?: missing parts are 0
ParseSegs(segs) ==
    IF Len(segs) > 3 \/ \E i \in 1..Len(segs) : ~Atoi(segs[i]).ok
    THEN [ok |-> FALSE, v |-> <<0, 0, 0>>]
    ELSE [ok |-> TRUE,
          v  |-> <<Atoi(segs[1]).v,
                   IF Len(segs) >= 2 THEN Atoi(segs[2]).v ELSE 0,
                   IF Len(segs) >= 3 THEN Atoi(segs[3]).v ELSE 0>>]

\* the characters of a pre-release or build-metadata identifier: [0-9A-Za-z-]
IdentChars ==
    Digits \cup {"-"} \cup {LowerLetters[k] : k \in 1..Len(LowerLetters)}
           \cup {UpperLetters[k] : k \in 1..Len(UpperLetters)}

\* identifiers separated by dots, none of them empty
Idents(u) ==
    \A k \in 1..Len(SplitDots(u)) :
        /\ Len(SplitDots(u)[k]) > 0
        /\ \A i \in 1..Len(SplitDots(u)[k]) : SplitDots(u)[k][i] \in IdentChars

\* validatePrerelease: a numeric identifier has no leading zero
PrereleaseOk(u) ==
    /\ Idents(u)
    /\ \A k \in 1..Len(SplitDots(u)) :
          ~(AllDigits(SplitDots(u)[k]) /\ Len(SplitDots(u)[k]) > 1 /\ SplitDots(u)[k][1] = "0")

\* what follows the numeric part: (-PRERELEASE)?(+METADATA)?
SuffixOk(t) ==
    LET plus == {i \in 1..Len(t) : t[i] = "+"}
    IN  IF t[1] = "+" THEN Idents(Tail(t))
        ELSE IF plus = {} THEN PrereleaseOk(Tail(t))
        ELSE /\ PrereleaseOk(SubSeq(t, 2, Min(plus) - 1))
             /\ Idents(SubSeq(t, Min(plus) + 1, Len(t)))

\* semver.NewVersion; v holds major, minor and patch (the tag names of the model
\* carry no pre-release, so none is kept for the comparison)
ParseSemver(name) ==
    LET s   == TrimPrefixV(name)
        cut == {i \in 1..Len(s) : s[i] \in {"-", "+"}}
    IN  IF cut = {} THEN ParseSegs(SplitDots(s))
        ELSE IF SuffixOk(SubSeq(s, Min(cut), Len(s)))
             THEN ParseSegs(SplitDots(SubSeq(s, 1, Min(cut) - 1)))
             ELSE [ok |-> FALSE, v |-> <<0, 0, 0>>]

\* (*semver.Version).GreaterThan
GreaterThan(a, b) ==
    \/ a[1] > b[1]
    \/ a[1] = b[1] /\ a[2] > b[2]
    \/ a[1] = b[1] /\ a[2] = b[2] /\ a[3] > b[3]

\* parseMajor: the moving-major case, from the answer of strconv.Atoi
MajorOfAtoi(a) == IF a.ok THEN [ok |-> TRUE, major |-> a.v] ELSE [ok |-> FALSE, major |-> 0]
\* parseMajor: the full-version case, from the answer of semver.NewVersion
MajorOfSemver(p) == IF p.ok THEN [ok |-> TRUE, major |-> p.v[1]] ELSE [ok |-> FALSE, major |-> 0]

\* parseMajor
ParseMajor(ref) ==
    IF IsMovingMajorTag(ref)
    THEN MajorOfAtoi(Atoi(TrimPrefixV(ref)))
    ELSE MajorOfSemver(ParseSemver(ref))

\* normalizeMajorRef
NormalizeMajorRef(ref) == IF Len(ref) > 0 /\ ref[1] = "v" THEN ref ELSE <<"v">> \o ref

---------------------------------------------------------------------------
(* The hosting API.  A repository state r is a record:                     *)
(*   tags        the tag listing, each entry [name, sha], in API order     *)
(*   listErrPage the page whose listing request fails (0: none)            *)
(*   refs        tag name -> answer of "get ref tags/<name>"               *)
(*   tagObjs     object id -> answer of "get tag object"                   *)
(*   release     answer of "get latest release"                            *)

\* tags per page of a listing (ListOptions.PerPage, scaled down)
PerPage == 2

NotFound == [status |-> "notfound", type |-> "", sha |-> <<>>]

\* client.Git.GetRef(ctx, owner, repo, "tags/"+tagName)
GetRef(r, name) == IF name \in DOMAIN r.refs THEN r.refs[name] ELSE NotFound
\* client.Git.GetTag(ctx, owner, repo, sha)
GetTag(r, sha) == IF sha \in DOMAIN r.tagObjs THEN r.tagObjs[sha] ELSE NotFound
\* client.Repositories.ListTags(ctx, owner, repo, &ListOptions{PerPage, Page})
ListTags(r, page) ==
    IF r.listErrPage = page
    THEN [err |-> TRUE, tags |-> <<>>, nextPage |-> 0]
    ELSE LET first == (page - 1) * PerPage + 1
             last  == IF page * PerPage < Len(r.tags) THEN page * PerPage ELSE Len(r.tags)
         IN  [err |-> FALSE,
              tags |-> SubSeq(r.tags, first, last),
              nextPage |-> IF page * PerPage < Len(r.tags) THEN page + 1 ELSE 0]

\* one entry of the log of API calls of a resolution
Call(op, tag, page) == [op |-> op, tag |-> tag, page |-> page]

OkSha(sha, tag, calls)  == [err |-> NoError, sha |-> sha, tag |-> tag, calls |-> calls]
ErrSha(err, calls) == [err |-> err, sha |-> <<>>, tag |-> <<>>, calls |-> calls]

\* a result with the calls made before it put in front of its own
WithCalls(calls, res) == [res EXCEPT !.calls = calls \o res.calls]

\* resolveTagToCommitSHA once GetRef has answered with a ref: the id of the ref's
\* object, replaced by the target of the tag object when that is a commit
Dereference(ref, tagObj) ==
    IF ref.type = "tag" /\ tagObj.status = "ok" /\ tagObj.type = "commit" /\ tagObj.sha # <<>>
    THEN tagObj.sha
    ELSE ref.sha

RefCalls(tagName, ref) ==
    IF ref.type = "tag"
    THEN <<Call("GetRef", tagName, 0), Call("GetTag", ref.sha, 0)>>
    ELSE <<Call("GetRef", tagName, 0)>>

\* faulty variant: an empty id is returned as a success
ResolvedShaUnchecked(tagName, sha, calls) == OkSha(sha, tagName, calls)

\* if sha == "" { return error }; return sha, tagName, nil
ResolvedSha(tagName, sha, calls) ==
    IF sha = <<>> THEN ErrSha("no SHA found for tag", calls) ELSE OkSha(sha, tagName, calls)

ResolveRef(r, tagName, ref) ==
    IF ref.status = "notfound" THEN ErrSha("tag not found", <<Call("GetRef", tagName, 0)>>)
    ELSE IF ref.status # "ok" THEN ErrSha("api error", <<Call("GetRef", tagName, 0)>>)
    ELSE ResolvedSha(tagName, Dereference(ref, GetTag(r, ref.sha)), RefCalls(tagName, ref))

\* resolveTagToCommitSHA
ResolveTagToCommitSHA(r, tagName) == ResolveRef(r, tagName, GetRef(r, tagName))

NoBest == [ok |-> FALSE, v |-> <<0, 0, 0>>, name |-> <<>>]

\* faulty variant: tags of a later major pass the filter too
MajorAtLeast(v, wanted) == wanted < 0 \/ v[1] >= wanted

\* the major filter of selectTagBySameMajor: int(v.Major()) != major -> continue
MajorMatches(v, wanted) == wanted < 0 \/ v[1] = wanted

\* one round of the loop over the tags of a page: p is the parse of the name
ScanTag(name, p, wanted, acc) ==
    IF ~p.ok \/ ~MajorMatches(p.v, wanted)
    THEN acc
    ELSE [best  |-> IF ~acc.best.ok \/ GreaterThan(p.v, acc.best.v)
                    THEN [ok |-> TRUE, v |-> p.v, name |-> name]
                    ELSE acc.best,
          found |-> TRUE]

\* the loop over the tags of one page that keeps the highest version;
\* wanted: the major to filter by, or -1 for no filter
RECURSIVE ScanTags(_, _, _, _)
ScanTags(tags, k, wanted, acc) ==
    IF k > Len(tags) THEN acc
    ELSE ScanTags(tags, k + 1, wanted,
                  ScanTag(tags[k].name, ParseSemver(tags[k].name), wanted, acc))

\* selectTagBySemverOrNewest: the highest version, else the first tag of the page
Chosen(tags, best) == IF best.ok THEN best.name ELSE tags[1].name

\* selectTagBySemverOrNewest once the (single) listing request has answered
SelectFromPage(r, l) ==
    IF l.err THEN ErrSha("api error", <<Call("ListTags", <<>>, 1)>>)
    ELSE IF Len(l.tags) = 0 THEN ErrSha("no tags found", <<Call("ListTags", <<>>, 1)>>)
    ELSE WithCalls(<<Call("ListTags", <<>>, 1)>>,
                   ResolveTagToCommitSHA(r,
                       Chosen(l.tags,
                              ScanTags(l.tags, 1, -1, [best |-> NoBest, found |-> FALSE]).best)))

\* selectTagBySemverOrNewest
SelectTagBySemverOrNewest(r) == SelectFromPage(r, ListTags(r, 1))

\* faulty variant: stop at any page without a tag of the major
EarlyStopWithoutPrior(foundOnPage, foundInPriorPages) == ~foundOnPage

\* faulty variant: stop at any page that follows a page with a tag of the major
EarlyStopOnPrior(foundOnPage, foundInPriorPages) == foundInPriorPages

\* does the page loop of selectTagBySameMajor stop before asking for the next page?
EarlyStop(foundOnPage, foundInPriorPages) == ~foundOnPage /\ foundInPriorPages

RECURSIVE SameMajorPages(_, _, _, _, _)

\* one round of the page loop of selectTagBySameMajor: l is the answer of the
\* listing request for the page, scan the result of the loop over its tags
SameMajorPage(r, major, page, best, prior, l, scan) ==
    IF l.err THEN [err |-> TRUE, best |-> best, calls |-> <<Call("ListTags", <<>>, page)>>]
    ELSE IF EarlyStop(scan.found, prior) \/ l.nextPage = 0
         THEN [err |-> FALSE, best |-> scan.best, calls |-> <<Call("ListTags", <<>>, page)>>]
         ELSE WithCalls(<<Call("ListTags", <<>>, page)>>,
                        SameMajorPages(r, major, l.nextPage, scan.best, prior \/ scan.found))

\* the page loop of selectTagBySameMajor: the best tag and the pages requested
SameMajorPages(r, major, page, best, prior) ==
    SameMajorPage(r, major, page, best, prior, ListTags(r, page),
                  ScanTags(ListTags(r, page).tags, 1, major, [best |-> best, found |-> FALSE]))

\* selectTagBySameMajor after the page loop
SelectBest(r, loop) ==
    IF loop.err THEN ErrSha("api error", loop.calls)
    ELSE IF ~loop.best.ok \/ loop.best.name = <<>>
         THEN ErrSha("no tags found for major", loop.calls)
         ELSE WithCalls(loop.calls, ResolveTagToCommitSHA(r, loop.best.name))

\* selectTagBySameMajor
SelectTagBySameMajor(r, major) == SelectBest(r, SameMajorPages(r, major, 1, NoBest, FALSE))

\* first pass of findFullSemverTagForMajorCommit: is the tag a candidate?
IsCandidate(p, major) == p.ok /\ p.v[1] = major

\* first pass of findFullSemverTagForMajorCommit over the tags of one page
RECURSIVE FirstPassPage(_, _, _, _, _)
FirstPassPage(tags, k, major, sha, cands) ==
    IF k > Len(tags) THEN [hit |-> FALSE, name |-> <<>>, cands |-> cands]
    ELSE IF ~IsCandidate(ParseSemver(tags[k].name), major)
         THEN FirstPassPage(tags, k + 1, major, sha, cands)
         ELSE IF tags[k].sha # <<>> /\ tags[k].sha = sha
              THEN [hit |-> TRUE, name |-> tags[k].name, cands |-> Append(cands, tags[k].name)]
              ELSE FirstPassPage(tags, k + 1, major, sha, Append(cands, tags[k].name))

RECURSIVE FirstPass(_, _, _, _, _)

\* one round of the page loop of the first pass: l is the answer of the listing
\* request, pg the result of the loop over its tags
FirstPassStep(r, major, sha, page, cands, l, pg) ==
    IF l.err
    THEN [err |-> TRUE, hit |-> FALSE, name |-> <<>>, cands |-> cands,
          calls |-> <<Call("ListTags", <<>>, page)>>]
    ELSE IF pg.hit \/ l.nextPage = 0
         THEN [err |-> FALSE, hit |-> pg.hit, name |-> pg.name, cands |-> pg.cands,
               calls |-> <<Call("ListTags", <<>>, page)>>]
         ELSE WithCalls(<<Call("ListTags", <<>>, page)>>,
                        FirstPass(r, major, sha, l.nextPage, pg.cands))

\* first pass of findFullSemverTagForMajorCommit: all pages
FirstPass(r, major, sha, page, cands) ==
    FirstPassStep(r, major, sha, page, cands, ListTags(r, page),
                  FirstPassPage(ListTags(r, page).tags, 1, major, sha, cands))

RECURSIVE SecondPass(_, _, _, _)

\* one round of the second pass: res is the resolution of the candidate
SecondPassStep(r, cands, k, sha, res) ==
    IF res.err = NoError /\ res.sha = sha
    THEN [ok |-> TRUE, name |-> cands[k], calls |-> res.calls]
    ELSE WithCalls(res.calls, SecondPass(r, cands, k + 1, sha))

\* second pass of findFullSemverTagForMajorCommit: dereference the candidates
SecondPass(r, cands, k, sha) ==
    IF k > Len(cands) THEN [ok |-> FALSE, name |-> <<>>, calls |-> <<>>]
    ELSE SecondPassStep(r, cands, k, sha, ResolveTagToCommitSHA(r, cands[k]))

\* findFullSemverTagForMajorCommit after the first pass
AfterFirstPass(r, sha, fp) ==
    IF fp.err THEN [ok |-> FALSE, name |-> <<>>, calls |-> fp.calls]
    ELSE IF fp.hit THEN [ok |-> TRUE, name |-> fp.name, calls |-> fp.calls]
    ELSE WithCalls(fp.calls, SecondPass(r, fp.cands, 1, sha))

\* findFullSemverTagForMajorCommit after strconv.Atoi
FindFullForMajor(r, a, resolvedCommitSHA) ==
    IF ~a.ok THEN [ok |-> FALSE, name |-> <<>>, calls |-> <<>>]
    ELSE AfterFirstPass(r, resolvedCommitSHA, FirstPass(r, a.v, resolvedCommitSHA, 1, <<>>))

\* findFullSemverTagForMajorCommit
FindFullSemverTagForMajorCommit(r, majorRef, resolvedCommitSHA) ==
    FindFullForMajor(r, Atoi(TrimPrefixV(majorRef)), resolvedCommitSHA)

\* UpdatePolicy
UpdatePolicyMajor     == 0
UpdatePolicySameMajor == 1
UpdatePolicyRequested == 2
Policies == {UpdatePolicyMajor, UpdatePolicySameMajor, UpdatePolicyRequested}

Success(owner, repo, v, sha, calls) ==
    [info  |-> [Owner |-> owner, Repo |-> repo, Version |-> v, SHA |-> sha, Error |-> NoError],
     calls |-> calls]
Failure(owner, repo, err, calls) ==
    [info  |-> [Owner |-> owner, Repo |-> repo, Version |-> <<>>, SHA |-> <<>>, Error |-> err],
     calls |-> calls]

\* a branch of resolveActionForPolicy that returned (res), or fell through after
\* the calls made
Returned(res) == [done |-> TRUE, res |-> res]
FellThrough(owner, repo, calls) == [done |-> FALSE, res |-> Failure(owner, repo, "", calls)]

RECURSIVE TryCandidates(_, _, _)

TryCandidate(r, cands, k, res) ==
    IF res.err = NoError \/ k = Len(cands) THEN res
    ELSE WithCalls(res.calls, TryCandidates(r, cands, k + 1))

\* the candidates loop of the Requested branch: the literal major ref, then its
\* v-prefixed form; stops at the first that resolves
TryCandidates(r, cands, k) == TryCandidate(r, cands, k, ResolveTagToCommitSHA(r, cands[k]))

\* faulty variant: only the literal ref is tried
CandidatesLiteralOnly(requestedRef) == <<requestedRef>>

\* candidates := []string{requestedRef}, plus the v-prefixed form
Candidates(requestedRef) ==
    IF requestedRef[1] = "v" THEN <<requestedRef>>
    ELSE <<requestedRef, NormalizeMajorRef(requestedRef)>>

\* faulty variant: the expansion pins the full tag by its name
ExpandedVersionAsRef(owner, repo, m, f) ==
    IF f.ok /\ f.name # <<>>
    THEN Success(owner, repo, f.name, f.name, m.calls \o f.calls)
    ELSE Success(owner, repo, m.tag, m.sha, m.calls \o f.calls)

\* the moving major resolved to m: the version reported, f being the answer of
\* findFullSemverTagForMajorCommit (not asked without expandMajor)
ExpandedVersion(owner, repo, m, f) ==
    Success(owner, repo, IF f.ok /\ f.name # <<>> THEN f.name ELSE m.tag, m.sha,
            m.calls \o f.calls)

\* the Requested branch past the moving-major attempt (calls made so far): e is
\* the resolution of the ref as an exact tag
ExactOrSHA(owner, repo, requestedRef, calls, e) ==
    IF e.err = NoError
    THEN Returned(Success(owner, repo, e.tag, e.sha, calls \o e.calls))
    ELSE IF IsFullSHA(requestedRef)
         THEN Returned(Success(owner, repo, requestedRef, requestedRef, calls \o e.calls))
         ELSE FellThrough(owner, repo, calls \o e.calls)

\* the Requested branch for a moving major ref: m is the result of the candidates
MovingMajor(r, owner, repo, requestedRef, expandMajor, m) ==
    IF m.err = NoError
    THEN Returned(ExpandedVersion(owner, repo, m,
                     IF expandMajor
                     THEN FindFullSemverTagForMajorCommit(r, requestedRef, m.sha)
                     ELSE [ok |-> FALSE, name |-> <<>>, calls |-> <<>>]))
    ELSE ExactOrSHA(owner, repo, requestedRef, m.calls,
                    ResolveTagToCommitSHA(r, requestedRef))

\* the Requested branch of resolveActionForPolicy
RequestedBranch(r, owner, repo, requestedRef, expandMajor) ==
    IF IsMovingMajorTag(requestedRef)
    THEN MovingMajor(r, owner, repo, requestedRef, expandMajor,
                     TryCandidates(r, Candidates(requestedRef), 1))
    ELSE ExactOrSHA(owner, repo, requestedRef, <<>>, ResolveTagToCommitSHA(r, requestedRef))

\* the SameMajor branch once selectTagBySameMajor has answered
SameMajorSelected(owner, repo, t) ==
    IF t.err = NoError
    THEN Returned(Success(owner, repo, t.tag, t.sha, t.calls))
    ELSE FellThrough(owner, repo, t.calls)

SameMajorParsed(r, owner, repo, pm) ==
    IF pm.ok
    THEN SameMajorSelected(owner, repo, SelectTagBySameMajor(r, pm.major))
    ELSE FellThrough(owner, repo, <<>>)

\* the SameMajor branch of resolveActionForPolicy
SameMajorBranch(r, owner, repo, requestedRef) ==
    SameMajorParsed(r, owner, repo, ParseMajor(requestedRef))

\* the end of the Latest chain: selectTagBySemverOrNewest has answered
FromTags(owner, repo, calls, t) ==
    IF t.err # NoError
    THEN Failure(owner, repo, t.err, calls \o t.calls)
    ELSE Success(owner, repo, t.tag, t.sha, calls \o t.calls)

\* the Latest chain with a latest release: rt is the resolution of its tag
FromRelease(r, owner, repo, rt) ==
    IF rt.err = NoError
    THEN Success(owner, repo, rt.tag, rt.sha, <<Call("GetLatestRelease", <<>>, 0)>> \o rt.calls)
    ELSE FromTags(owner, repo, <<Call("GetLatestRelease", <<>>, 0)>> \o rt.calls,
                  SelectTagBySemverOrNewest(r))

\* the Major (latest) chain of resolveActionForPolicy: latest release, else the
\* highest semver tag, else the newest tag
LatestChain(r, owner, repo) ==
    IF r.release.status = "ok"
    THEN FromRelease(r, owner, repo, ResolveTagToCommitSHA(r, r.release.tag))
    ELSE IF r.release.status = "http_error"
         THEN Failure(owner, repo, "release error", <<Call("GetLatestRelease", <<>>, 0)>>)
         ELSE FromTags(owner, repo, <<Call("GetLatestRelease", <<>>, 0)>>,
                       SelectTagBySemverOrNewest(r))

\* resolveActionForPolicy after the branch of the policy
AfterBranch(r, owner, repo, first) ==
    IF first.done THEN first.res
    ELSE WithCalls(first.res.calls, LatestChain(r, owner, repo))

\* resolveActionForPolicy on the repository state r of owner/repo:
\* the ActionInfo (info) and the API calls made, in order (calls)
ResolveOn(r, owner, repo, requestedRef, expandMajor, policy) ==
    AfterBranch(r, owner, repo,
        IF policy = UpdatePolicyRequested /\ requestedRef # <<>>
        THEN RequestedBranch(r, owner, repo, requestedRef, expandMajor)
        ELSE IF policy = UpdatePolicySameMajor /\ requestedRef # <<>>
             THEN SameMajorBranch(r, owner, repo, requestedRef)
             ELSE FellThrough(owner, repo, <<>>))

\* a repository the hosting API does not know: every request is answered 404
NoRepo ==
    [tags |-> <<>>, listErrPage |-> 1, refs |-> <<>>, tagObjs |-> <<>>,
     release |-> [status |-> "notfound", tag |-> <<>>]]

ActionName(owner, repo) == owner \o <<"/">> \o repo

Repository(a, owner, repo) ==
    IF ActionName(owner, repo) \in DOMAIN a THEN a[ActionName(owner, repo)] ELSE NoRepo

\* resolveActionForPolicy: the ActionInfo and the API calls made
ResolveTrace(a, owner, repo, requestedRef, expandMajor, policy) ==
    ResolveOn(Repository(a, owner, repo), owner, repo, requestedRef, expandMajor, policy)

ResolveActionForPolicy(a, owner, repo, requestedRef, expandMajor, policy) ==
    ResolveTrace(a, owner, repo, requestedRef, expandMajor, policy).info

---------------------------------------------------------------------------
(* Tag names, commit ids and documents of the model *)

\* a commit id: 40 hex characters, told apart by the last one
Sha(c) == [i \in 1..ShaLen |-> IF i = ShaLen THEN c ELSE "0"]
ShaA == Sha("a")
ShaB == Sha("b")
ShaC == Sha("c")
ShaD == Sha("d")

TagV2   == <<"v", "2">>
TagV210 == <<"v", "2", ".", "1", ".", "0">>
TagV220 == <<"v", "2", ".", "2", ".", "0">>
TagV300 == <<"v", "3", ".", "0", ".", "0">>
TagNightly == <<"n", "i", "g", "h", "t", "l", "y">>
RefMain == <<"m", "a", "i", "n">>

OwnerA == <<"a">>
RepoB  == <<"b">>
RepoC  == <<"c">>

UsesAB == UsesLit \o <<" ">> \o OwnerA \o <<"/">> \o RepoB
\* the lines documents are made of
LineTag     == UsesAB \o <<"@">> \o TagV2
LineComment == UsesAB \o <<"@">> \o TagV210 \o <<" ", "#", " ", "k">>
LineSpacing == UsesLit \o <<" ", " ">> \o OwnerA \o <<"/">> \o RepoC \o <<"@">> \o TagV2
LineNoAt    == UsesLit \o <<" ">> \o OwnerA \o <<"/">> \o RepoC
LinePinned  == UsesAB \o <<"@">> \o ShaB \o <<" ", "#", " ">> \o TagV220
LineBranch  == <<" ", "-", " ">> \o UsesAB \o <<"@">> \o RefMain \o <<"#", "k">>
LineOther   == <<"r", "u", "n", ":", " ", "x">>
LineHash    == <<" ", "#", " ", "k">>

Lines == {LineTag, LineComment, LineSpacing, LineNoAt, LinePinned, LineBranch,
          LineOther, LineHash}

RECURSIVE JoinLines(_)
JoinLines(ls) ==
    IF Len(ls) = 0 THEN <<>>
    ELSE IF Len(ls) = 1 THEN ls[1]
         ELSE ls[1] \o <<"\n">> \o JoinLines(Tail(ls))

\* documents of at most MaxLines lines
Docs == {JoinLines(ls) : ls \in UNION {[1..n -> Lines] : n \in 0..MaxLines}}

\* the resolutions a caller may hand to updateContent for one occurrence
InfoChoices(occ) ==
    LET mk(v, sha, err) ==
            [Owner |-> occ.Owner, Repo |-> occ.Repo, Version |-> v, SHA |-> sha, Error |-> err]
    IN  {mk(TagV220, ShaA, NoError),                       \* resolved to a new commit
         mk(occ.RequestedRef, occ.RequestedRef, NoError),  \* resolved to the ref itself
         mk(<<>>, <<>>, "api error"),                      \* failed
         mk(TagV2, <<>>, NoError),                         \* no error, empty commit id
         mk(TagV220, ShaA, "api error")}                   \* failed, fields left set

InfoLists(occs) ==
    UNION {{f \in [1..n -> UNION {InfoChoices(occs[i]) : i \in 1..Len(occs)}] :
                \A i \in 1..n : f[i] \in InfoChoices(occs[i])} : n \in 0..Len(occs)}

---------------------------------------------------------------------------
(* SpecRewrite: updateContent applied to the occurrences of a document and *)
(* a list of resolutions.                                                  *)

RunIdle == api = <<>> /\ effectivePolicy = UpdatePolicyMajor /\ expandMajorFlag = FALSE
ResIdle == reqRef = <<>> /\ result = <<>>
TextIdle == content = <<>> /\ occurrences = <<>> /\ actionInfos = <<>> /\ updated = <<>>
OrchIdle ==
    /\ taskPc = <<>> /\ mu = 0 /\ cache = <<>> /\ infos = <<>> /\ messages = <<>>
    /\ taskInfo = <<>> /\ hist = <<>> /\ printed = <<>>
MainIdle ==
    /\ yesFlag = FALSE /\ writeFlag = FALSE /\ dryRunFlag = FALSE /\ nArg = 1
    /\ workflowFile = <<>> /\ token = TRUE /\ stdin = <<>> /\ exitCode = -1 /\ log = <<>>
    /\ actions = <<>> /\ policyFlag = <<"m", "a", "j", "o", "r">>

InitRewrite ==
    /\ MainIdle
    /\ RunIdle
    /\ ResIdle
    /\ OrchIdle
    /\ pc = "rewrite"
    /\ content \in Docs
    /\ occurrences = ExtractOccurrences(content)
    /\ actionInfos \in InfoLists(occurrences)
    /\ updated = <<>>

DoUpdateContent ==
    /\ pc = "rewrite"
    /\ updated' = UpdateContent(content, occurrences, actionInfos)
    /\ pc' = "rewritten"
    /\ UNCHANGED <<mainVars, content, occurrences, actionInfos, runVars, resVars, orchVars>>

NextRewrite == DoUpdateContent

SpecRewrite == InitRewrite /\ [][NextRewrite]_vars

---------------------------------------------------------------------------
(* Claims about updateContent *)

\* occurrence i has an index-aligned, non-failed resolution whose non-empty
\* commit differs from the requested ref
Qualifies(i) ==
    /\ i <= Len(actionInfos)
    /\ actionInfos[i].Error = NoError
    /\ actionInfos[i].SHA # <<>>
    /\ actionInfos[i].SHA # occurrences[i].RequestedRef

QualSet == {i \in 1..Len(occurrences) : Qualifies(i)}

\* length of "@<commit> # <version>"
NewLen(i) == 1 + Len(actionInfos[i].SHA) + 3 + Len(actionInfos[i].Version)

RECURSIVE SumGrowth(_)
SumGrowth(S) ==
    IF S = {} THEN 0
    ELSE LET i == CHOOSE x \in S : TRUE
         IN  NewLen(i) - (occurrences[i].ReplaceEnd - occurrences[i].ReplaceStart)
             + SumGrowth(S \ {i})

\* where offset p of the input lies in the output, when p is in no replaced span
Shift(p) == p + SumGrowth({i \in QualSet : occurrences[i].ReplaceEnd <= p})

OutsidePos ==
    {p \in 0..(Len(content) - 1) :
        \A i \in QualSet : p < occurrences[i].ReplaceStart \/ p >= occurrences[i].ReplaceEnd}

\* C2: updateContent changes only the bytes inside the replace spans of the
\* occurrences with an index-aligned, non-failed resolution whose non-empty commit
\* differs from the requested ref: every other byte of the input is in the output,
\* unchanged and in the same order, and an occurrence with a failed or a missing
\* resolution keeps its text byte for byte.
C2_OnlySpansChange ==
    pc = "rewritten" =>
        /\ Len(updated) = Len(content) + SumGrowth(QualSet)
        /\ \A p \in OutsidePos : At(updated, Shift(p)) = At(content, p)
        /\ \A i \in 1..Len(occurrences) :
              (i > Len(actionInfos) \/ actionInfos[i].Error # NoError) =>
                  LET o == occurrences[i]
                      q == Shift(o.MatchStart)
                  IN  Slice(updated, q, q + (o.MatchEnd - o.MatchStart))
                          = Slice(content, o.MatchStart, o.MatchEnd)

C2_Witness ==
    /\ pc = "rewritten"
    /\ Len(occurrences) = 2
    /\ Len(actionInfos) = 2
    /\ actionInfos[1].Error # NoError
    /\ actionInfos[1].SHA # <<>>
    /\ Qualifies(2)
    /\ updated # content

\* no inline comment (blanks, then #) starts at offset p of s
NoCommentAt(s, p) ==
    LET e == RunIn(s, p, {" ", "\t"})
    IN  e >= Len(s) \/ At(s, e) # "#"

\* C3: for each occurrence with a successful resolution to a commit c other than
\* the requested ref, with version v, the output holds exactly "@c # v" in place
\* of the input's text from the "@" to the end of the match; the text of the match
\* before the "@" (uses: owner/repo) is kept, and no inline comment of the entry
\* is left behind the new text.
C3_ExactReplacement ==
    pc = "rewritten" =>
        \A i \in QualSet :
            LET o    == occurrences[i]
                info == actionInfos[i]
                q    == Shift(o.MatchStart) + (o.ReplaceStart - o.MatchStart)
            IN  /\ At(content, o.ReplaceStart) = "@"
                /\ o.ReplaceEnd = o.MatchEnd
                /\ Slice(updated, q, q + NewLen(i))
                      = <<"@">> \o info.SHA \o <<" ", "#", " ">> \o info.Version
                /\ Slice(updated, Shift(o.MatchStart), q)
                      = Slice(content, o.MatchStart, o.ReplaceStart)
                /\ Slice(content, o.ReplaceStart - Len(o.Action), o.ReplaceStart) = o.Action
                /\ IF o.MatchEnd < Len(content)
                   THEN At(updated, q + NewLen(i)) = At(content, o.MatchEnd)
                   ELSE q + NewLen(i) = Len(updated)
                /\ NoCommentAt(updated, q + NewLen(i))

C3_Witness ==
    /\ pc = "rewritten"
    /\ \E i \in QualSet :
          \* the entry had a trailing inline comment
          /\ occurrences[i].ReplaceEnd
                > occurrences[i].ReplaceStart + 1 + Len(occurrences[i].RequestedRef)
          /\ occurrences[i].MatchEnd < Len(content)
    /\ Cardinality(QualSet) = 2

\* C4: when every occurrence has a failed resolution, an empty commit id, or a
\* commit equal to its requested ref, updateContent builds no replacement and
\* returns the input document itself.
C4_NothingToDo ==
    (/\ pc = "rewritten"
     /\ \A i \in 1..Len(occurrences) :
           i <= Len(actionInfos) =>
               \/ actionInfos[i].Error # NoError
               \/ actionInfos[i].SHA = <<>>
               \/ actionInfos[i].SHA = occurrences[i].RequestedRef)
    => /\ updated = content
       /\ BuildRepls(occurrences, actionInfos, 1) = <<>>

C4_Witness ==
    /\ pc = "rewritten"
    /\ Len(occurrences) = 2
    /\ Len(actionInfos) = 2
    /\ actionInfos[1].Error = NoError
    /\ actionInfos[1].SHA = occurrences[1].RequestedRef
    /\ Len(occurrences[1].RequestedRef) = ShaLen
    /\ actionInfos[2].Error # NoError
    /\ updated = content

---------------------------------------------------------------------------
(* Repository states of the model *)

TagUniverse == {TagV210, TagV220, TagV300, TagV2, TagNightly}

\* the commit each tag of the model points to (v2 is the moving major tag)
CommitOf(name) ==
    CASE name = TagV210 -> ShaA
      [] name = TagV220 -> ShaB
      [] name = TagV2   -> ShaB
      [] name = TagV300 -> ShaC
      [] OTHER          -> ShaD

\* a commit id made of decimal digits only, and the tag named by its v-prefixed form
ShaDigits == [i \in 1..ShaLen |-> "1"]
TagVDigits == <<"v">> \o ShaDigits

\* ids of annotated tag objects
TagObjId  == Sha("e")
TagObjId2 == Sha("f")

Range(f) == {f[i] : i \in DOMAIN f}

\* tag listings: sequences of distinct tags
Listings ==
    {l \in UNION {[1..n -> TagUniverse] : n \in 0..MaxTags} :
        \A i, j \in 1..Len(l) : i # j => l[i] # l[j]}

\* how the ref of one tag of the repository may differ from a lightweight tag
OddKinds == {"annotated", "deref_error", "nested", "missing", "error", "empty"}

RefOf(name, odd, kind) ==
    IF name # odd THEN [status |-> "ok", type |-> "commit", sha |-> CommitOf(name)]
    ELSE CASE kind = "error" -> [status |-> "error", type |-> "", sha |-> <<>>]
           [] kind = "empty" -> [status |-> "ok", type |-> "commit", sha |-> <<>>]
           [] OTHER          -> [status |-> "ok", type |-> "tag", sha |-> TagObjId]

TagObjOf(odd, kind) ==
    CASE kind = "annotated"   -> [status |-> "ok", type |-> "commit", sha |-> CommitOf(odd)]
      [] kind = "nested"      -> [status |-> "ok", type |-> "tag", sha |-> TagObjId2]
      [] OTHER                -> [status |-> "error", type |-> "", sha |-> <<>>]

\* a repository whose tags are those of the listing; the tag `odd` (if listed) has
\* a ref of kind `kind`, every other tag is a lightweight tag
MkRepo(listing, odd, kind, release, listErrPage) ==
    LET names == Range(listing) \ (IF kind = "missing" THEN {odd} ELSE {})
        objs  == IF odd \in Range(listing) /\ kind \in {"annotated", "deref_error", "nested"}
                 THEN {TagObjId} ELSE {}
    IN  [tags        |-> [i \in 1..Len(listing) |->
                             [name |-> listing[i], sha |-> CommitOf(listing[i])]],
         listErrPage |-> listErrPage,
         refs        |-> [n \in names |-> RefOf(n, odd, kind)],
         tagObjs     |-> [o \in objs |-> TagObjOf(odd, kind)],
         release     |-> release]

Releases ==
    {[status |-> "ok", tag |-> TagV300], [status |-> "ok", tag |-> TagV220],
     [status |-> "notfound", tag |-> <<>>], [status |-> "http_error", tag |-> <<>>],
     [status |-> "net_error", tag |-> <<>>]}

NoOdd == <<>>

\* every listing with lightweight tags only, and a few listings with one odd tag,
\* a failing listing request or any answer of the release request
SmallListings ==
    {<<TagV300, TagV220, TagV210, TagV2>>, <<TagV210, TagV300, TagNightly>>,
     <<TagNightly>>, <<TagV300>>}

RepoStates ==
    {MkRepo(l, NoOdd, "missing", rel, 0) :
        l \in Listings, rel \in {[status |-> "notfound", tag |-> <<>>],
                                 [status |-> "ok", tag |-> TagV300]}}
    \cup
    UNION {{MkRepo(l, odd, kind, rel, e) :
               odd \in Range(l), kind \in OddKinds, rel \in Releases, e \in 0..2}
           \cup {MkRepo(l, NoOdd, "missing", rel, e) : rel \in Releases, e \in 0..2}
           : l \in SmallListings}
    \cup
    {MkRepo(<<TagVDigits, TagV300>>, NoOdd, "missing", rel, 0) :
        rel \in {[status |-> "notfound", tag |-> <<>>], [status |-> "ok", tag |-> TagV300]}}

RequestedRefs == {TagV2, <<"2">>, TagV210, RefMain, ShaB, ShaDigits}

---------------------------------------------------------------------------
(* SpecResolver: resolveActionForPolicy on one repository *)

InitResolver ==
    /\ MainIdle
    /\ TextIdle
    /\ OrchIdle
    /\ pc = "resolve"
    /\ \E r \in RepoStates : api = [a \in {ActionName(OwnerA, RepoB)} |-> r]
    /\ effectivePolicy \in Policies
    /\ expandMajorFlag \in BOOLEAN
    /\ reqRef \in RequestedRefs
    /\ result = <<>>

DoResolve ==
    /\ pc = "resolve"
    /\ result' = ResolveTrace(api, OwnerA, RepoB, reqRef, expandMajorFlag, effectivePolicy)
    /\ pc' = "resolved"
    /\ UNCHANGED <<mainVars, textVars, runVars, reqRef, orchVars>>

\* selectTagBySameMajor called for a major
DoSelectTagBySameMajor ==
    /\ pc = "resolve"
    /\ \E major \in {1, 2, 3} :
          result' = [major |-> major,
                     res   |-> SelectTagBySameMajor(Repository(api, OwnerA, RepoB), major)]
    /\ pc' = "selected"
    /\ UNCHANGED <<mainVars, textVars, runVars, reqRef, orchVars>>

\* the workflow line "uses: a/b@<ref>" of the occurrence being resolved
UsesLine(ref) == UsesAB \o <<"@">> \o ref

\* main rewrites the line of the resolved occurrence:
\* occurrences := extractOccurrences(content), updateContent(content, occurrences, actionInfos)
WriteResolved(doc, info) ==
    /\ content' = doc
    /\ occurrences' = ExtractOccurrences(doc)
    /\ actionInfos' = <<info>>
    /\ updated' = UpdateContent(doc, ExtractOccurrences(doc), <<info>>)

DoPin ==
    /\ pc = "resolved"
    /\ WriteResolved(UsesLine(reqRef), result.info)
    /\ pc' = "pinned"
    /\ UNCHANGED <<mainVars, runVars, resVars, orchVars>>

\* resolveTagToCommitSHA called for a tag name
DoResolveTagToCommitSHA ==
    /\ pc = "resolve"
    /\ \E tagName \in TagUniverse :
          result' = [tag |-> tagName,
                     res |-> ResolveTagToCommitSHA(Repository(api, OwnerA, RepoB), tagName)]
    /\ pc' = "dereferenced"
    /\ UNCHANGED <<mainVars, textVars, runVars, reqRef, orchVars>>

NextResolver == DoResolve \/ DoSelectTagBySameMajor \/ DoPin \/ DoResolveTagToCommitSHA

SpecResolver == InitResolver /\ [][NextResolver]_vars

---------------------------------------------------------------------------
(* Claims about the SameMajor policy *)

TheRepo == Repository(api, OwnerA, RepoB)

\* the names of the listed tags that parse as versions of major m, among the
\* first n tags of the listing
ListedOfMajor(r, m, n) ==
    {r.tags[i].name : i \in {j \in 1..n : j <= Len(r.tags)
                                  /\ ParseSemver(r.tags[j].name).ok
                                  /\ ParseSemver(r.tags[j].name).v[1] = m}}

\* the tag resolves: its ref is found and leads to a non-empty id
Resolves(r, name) ==
    /\ GetRef(r, name).status = "ok"
    /\ \/ GetRef(r, name).sha # <<>>
       \/ /\ GetRef(r, name).type = "tag"
          /\ GetTag(r, GetRef(r, name).sha).status = "ok"
          /\ GetTag(r, GetRef(r, name).sha).type = "commit"
          /\ GetTag(r, GetRef(r, name).sha).sha # <<>>

MadeCall(calls, op) == \E i \in 1..Len(calls) : calls[i].op = op

SameMajorOrFallback(r, m, listed, info, fell) ==
    /\ (r.listErrPage = 0 /\ listed # {} /\ \A t \in listed : Resolves(r, t))
          => /\ info.Error = NoError
             /\ info.Version \in listed
             /\ ~fell
    /\ (info.Error = NoError /\ ~fell)
          => /\ ParseSemver(info.Version).ok
             /\ ParseSemver(info.Version).v[1] = m
    /\ fell => \/ listed = {}
               \/ r.listErrPage # 0
               \/ \E t \in listed : ~Resolves(r, t)

NumPages(r) == IF Len(r.tags) = 0 THEN 1 ELSE (Len(r.tags) + PerPage - 1) \div PerPage
PageHasMajor(r, m, p) ==
    ListedOfMajor(r, m, p * PerPage) # ListedOfMajor(r, m, (p - 1) * PerPage)

\* the last page selectTagBySameMajor reads: the last page of the listing, or the
\* first page without a tag of the major that follows a page with one
StopPage(r, m) ==
    Min({p \in 1..NumPages(r) :
            \/ p = NumPages(r)
            \/ ~PageHasMajor(r, m, p) /\ \E q \in 1..(p - 1) : PageHasMajor(r, m, q)})

HighestOf(names, name) ==
    /\ name \in names
    /\ \A t \in names : ~GreaterThan(ParseSemver(t).v, ParseSemver(name).v)

\* the id the ref of the tag leads to, where that is a commit
CommitReachedBy(ref, tagObj, sha) ==
    /\ ref.status = "ok"
    /\ ref.type = "commit" => sha = ref.sha
    /\ (ref.type = "tag" /\ tagObj.status = "ok" /\ tagObj.type = "commit" /\ tagObj.sha # <<>>)
          => sha = tagObj.sha

CommitReached(r, name, sha) ==
    CommitReachedBy(GetRef(r, name), GetTag(r, GetRef(r, name).sha), sha)

\* C10 as claimed: selectTagBySameMajor returns the highest version among the
\* tags of the major on all pages of the listing.
C10_HighestOverAllPages ==
    (pc = "selected" /\ result.res.err = NoError)
    => HighestOf(ListedOfMajor(TheRepo, result.major, Len(TheRepo.tags)), result.res.tag)

\* the amended C10 on the answer res of selectTagBySameMajor against r, stop
\* being the last page read and read the tags of the major on the pages read
HighestOfPagesRead(r, stop, read, res) ==
    /\ res.err = NoError =>
          /\ HighestOf(read, res.tag)
          /\ CommitReached(r, res.tag, res.sha)
          /\ res.sha # <<>>
    /\ ((r.listErrPage = 0 \/ r.listErrPage > stop) /\ read # {}
           /\ \A t \in read : Resolves(r, t))
          => res.err = NoError
    /\ ((r.listErrPage = 0 \/ r.listErrPage > stop) /\ read = {})
          => res.err # NoError

\* C10 amended: selectTagBySameMajor reads the pages of the listing up to the last
\* one, or up to the first page without a tag of the major that follows a page
\* with one, and returns the highest version among the semver-parseable tags of
\* the major on the pages it read (tags on later pages are not considered),
\* together with the commit that tag resolves to; it succeeds whenever those pages
\* are served, hold such a tag and that tag resolves.
C10_HighestOverPagesRead ==
    pc = "selected" =>
        HighestOfPagesRead(TheRepo, StopPage(TheRepo, result.major),
                           ListedOfMajor(TheRepo, result.major,
                                         StopPage(TheRepo, result.major) * PerPage),
                           result.res)

C10_Witness ==
    /\ pc = "selected"
    /\ result.major = 2
    /\ result.res.err = NoError
    /\ NumPages(TheRepo) = 3
    /\ StopPage(TheRepo, 2) = 2
    /\ result.res.tag = TagV210
    /\ TagV220 \in ListedOfMajor(TheRepo, 2, Len(TheRepo.tags))

---------------------------------------------------------------------------
(* SpecOrch: getActionInfosForOccurrences, one goroutine per occurrence     *)

\* occurrences of one call of getActionInfosForOccurrences
MaxTasks == 3

\* fmt.Sprintf("%d", n)
RECURSIVE FormatInt(_)
FormatInt(n) ==
    IF n < 10
    THEN <<CHOOSE c \in Digits : DigitVal(c) = n>>
    ELSE FormatInt(n \div 10) \o <<CHOOSE c \in Digits : DigitVal(c) = n % 10>>

\* cacheKey: fmt.Sprintf("%s/%s|%d|%s", owner, repo, policy, requestedRef)
CacheKey(owner, repo, policy, requestedRef) ==
    owner \o <<"/">> \o repo \o <<"|">> \o FormatInt(policy) \o <<"|">> \o requestedRef

KeyOf(o) == CacheKey(o.Owner, o.Repo, effectivePolicy, o.RequestedRef)

\* faulty variant: any entry counts as a hit
CacheHitAnyEntry(c, key) == key \in DOMAIN c

\* ce, exists := cache[key]; exists && ce.ok
CacheHit(c, key) == key \in DOMAIN c /\ c[key].ok

\* cacheEntry{info: info, ok: info.Error == nil}
CacheEntry(info) == [info |-> info, ok |-> info.Error = NoError]

\* the zero ActionInfo of make([]ActionInfo, n)
ZeroInfo == [Owner |-> <<>>, Repo |-> <<>>, Version |-> <<>>, SHA |-> <<>>, Error |-> NoError]

\* fmt.Sprintf("  %s: %s -> %s", o.Action, info.Version, info.SHA)
MessageOf(o, info) ==
    <<" ", " ">> \o o.Action \o <<":", " ">> \o info.Version \o <<" ", "-", ">", " ">> \o info.SHA

\* the loop after wg.Wait(): the messages that are not blank, in order
RECURSIVE PrintedOf(_)
PrintedOf(ms) ==
    IF Len(ms) = 0 THEN <<>>
    ELSE IF IsBlank(ms[1]) THEN PrintedOf(Tail(ms))
         ELSE <<ms[1]>> \o PrintedOf(Tail(ms))

\* the answers of the hosting API while it is out of order: every request fails
OutageOf(r) ==
    [r EXCEPT !.listErrPage = 1,
              !.refs = [n \in DOMAIN r.refs |-> [status |-> "error", type |-> "", sha |-> <<>>]],
              !.release = [status |-> "http_error", tag |-> <<>>]]

\* the hosting API as one resolution sees it
ViewOf(a, down) == IF down THEN [k \in DOMAIN a |-> OutageOf(a[k])] ELSE a

Tasks == 1..Len(occurrences)

NoHist == [hit |-> FALSE, resolved |-> FALSE, down |-> FALSE, sawFailed |-> FALSE]

\* the documents handed to the orchestrator: uses-lines of two repositories, and
\* two lines whose repository and ref hold the separator of the cache key
LineAB210  == UsesAB \o <<"@">> \o TagV210
LineAC210  == UsesLit \o <<" ">> \o OwnerA \o <<"/">> \o RepoC \o <<"@">> \o TagV210
LineABBarX == UsesAB \o <<"|", "2", "|", "x", "@", "y">>
LineABXBar == UsesAB \o <<"@", "x", "|", "2", "|", "y">>
OrchLines == {LineAB210, LineAC210, LineABBarX, LineABXBar}
OrchDocs == {JoinLines(ls) : ls \in UNION {[1..n -> OrchLines] : n \in 1..MaxTasks}}

\* the repositories of the orchestrator's runs
OrchApi ==
    [a \in {ActionName(OwnerA, RepoB), ActionName(OwnerA, RepoC)} |->
        IF a = ActionName(OwnerA, RepoB)
        THEN MkRepo(<<TagV300, TagV220, TagV210, TagV2>>, NoOdd, "missing",
                    [status |-> "ok", tag |-> TagV300], 0)
        ELSE MkRepo(<<TagNightly>>, NoOdd, "missing", [status |-> "notfound", tag |-> <<>>], 0)]

\* the goroutines have been started (wg.Add(1); go func(idx, o)) and none has run
InitOrch ==
    /\ MainIdle
    /\ ResIdle
    /\ pc = "wait"
    /\ content \in OrchDocs
    /\ occurrences = ExtractOccurrences(content)
    /\ actionInfos = <<>>
    /\ updated = <<>>
    /\ api = OrchApi
    /\ effectivePolicy \in Policies
    /\ expandMajorFlag = FALSE
    /\ taskPc = [i \in Tasks |-> "lock"]
    /\ mu = 0
    /\ cache = <<>>
    /\ infos = [i \in Tasks |-> ZeroInfo]
    /\ messages = [i \in Tasks |-> <<>>]
    /\ taskInfo = [i \in Tasks |-> ZeroInfo]
    /\ hist = [i \in Tasks |-> NoHist]
    /\ printed = <<>>

\* mu.Lock(), before the lookup and before the store
Lock(i) ==
    /\ taskPc[i] \in {"lock", "lock2"}
    /\ mu = 0
    /\ mu' = i
    /\ taskPc' = [taskPc EXCEPT ![i] = IF taskPc[i] = "lock" THEN "lookup" ELSE "store"]
    /\ UNCHANGED <<mainVars, pc, textVars, runVars, resVars, cache, infos, messages, taskInfo, hist,
                   printed>>

\* faulty variant: on a miss the mutex is kept while the task resolves
LookupKeepingMutex(i) ==
    /\ taskPc[i] = "lookup"
    /\ mu = i
    /\ IF CacheHit(cache, KeyOf(occurrences[i]))
       THEN /\ taskInfo' = [taskInfo EXCEPT ![i] = cache[KeyOf(occurrences[i])].info]
            /\ taskPc' = [taskPc EXCEPT ![i] = "writehit"]
            /\ hist' = [hist EXCEPT ![i].hit = TRUE]
            /\ mu' = 0
       ELSE /\ taskPc' = [taskPc EXCEPT ![i] = "resolve"]
            /\ hist' = [hist EXCEPT ![i].sawFailed = KeyOf(occurrences[i]) \in DOMAIN cache]
            /\ UNCHANGED <<taskInfo, mu>>
    /\ UNCHANGED <<mainVars, pc, textVars, runVars, resVars, cache, infos, messages, printed>>

\* the lookup under the mutex: on a hit the entry's info is taken and the task
\* goes on to write it; otherwise the task goes on to resolve; mu.Unlock() either way
Lookup(i) ==
    /\ taskPc[i] = "lookup"
    /\ mu = i
    /\ mu' = 0
    /\ IF CacheHit(cache, KeyOf(occurrences[i]))
       THEN /\ taskInfo' = [taskInfo EXCEPT ![i] = cache[KeyOf(occurrences[i])].info]
            /\ taskPc' = [taskPc EXCEPT ![i] = "writehit"]
            /\ hist' = [hist EXCEPT ![i].hit = TRUE]
       ELSE /\ taskPc' = [taskPc EXCEPT ![i] = "resolve"]
            /\ hist' = [hist EXCEPT ![i].sawFailed = KeyOf(occurrences[i]) \in DOMAIN cache]
            /\ UNCHANGED taskInfo
    /\ UNCHANGED <<mainVars, pc, textVars, runVars, resVars, cache, infos, messages, printed>>

\* faulty variant: the info of a hit is written to the first slot
WriteHitFirstSlot(i) ==
    /\ taskPc[i] = "writehit"
    /\ infos' = [infos EXCEPT ![1] = taskInfo[i]]
    /\ taskPc' = [taskPc EXCEPT ![i] = "done"]
    /\ UNCHANGED <<mainVars, pc, textVars, runVars, resVars, mu, cache, messages, taskInfo, hist, printed>>

\* infos[idx] = ce.info; return
WriteHit(i) ==
    /\ taskPc[i] = "writehit"
    /\ infos' = [infos EXCEPT ![i] = taskInfo[i]]
    /\ taskPc' = [taskPc EXCEPT ![i] = "done"]
    /\ UNCHANGED <<mainVars, pc, textVars, runVars, resVars, mu, cache, messages, taskInfo, hist, printed>>

\* what follows resolveActionForPolicy's answer: the message on success, infos[idx]
AfterResolve(i, info, down) ==
    /\ taskInfo' = [taskInfo EXCEPT ![i] = info]
    /\ messages' = [messages EXCEPT ![i] = IF info.Error = NoError
                                           THEN MessageOf(occurrences[i], info)
                                           ELSE @]
    /\ infos' = [infos EXCEPT ![i] = info]
    /\ hist' = [hist EXCEPT ![i].resolved = TRUE, ![i].down = down]

\* info, err := resolveActionForPolicy(...), outside the mutex; the hosting API
\* may or may not be out of order while the task's requests are made
Resolve(i) ==
    /\ taskPc[i] = "resolve"
    /\ \E down \in BOOLEAN :
          AfterResolve(i,
                       ResolveActionForPolicy(ViewOf(api, down), occurrences[i].Owner,
                                              occurrences[i].Repo, occurrences[i].RequestedRef,
                                              expandMajorFlag, effectivePolicy),
                       down)
    /\ taskPc' = [taskPc EXCEPT ![i] = "lock2"]
    /\ UNCHANGED <<mainVars, pc, textVars, runVars, resVars, mu, cache, printed>>

\* faulty variant: the mutex is not released after the store
StoreKeepingMutex(i) ==
    /\ taskPc[i] = "store"
    /\ mu = i
    /\ cache' = [k \in DOMAIN cache \cup {KeyOf(occurrences[i])} |->
                    IF k = KeyOf(occurrences[i]) THEN CacheEntry(taskInfo[i]) ELSE cache[k]]
    /\ taskPc' = [taskPc EXCEPT ![i] = "done"]
    /\ UNCHANGED <<mainVars, pc, textVars, runVars, resVars, mu, infos, messages, taskInfo, hist, printed>>

\* cache[key] = cacheEntry{...}; mu.Unlock()
Store(i) ==
    /\ taskPc[i] = "store"
    /\ mu = i
    /\ cache' = [k \in DOMAIN cache \cup {KeyOf(occurrences[i])} |->
                    IF k = KeyOf(occurrences[i]) THEN CacheEntry(taskInfo[i]) ELSE cache[k]]
    /\ mu' = 0
    /\ taskPc' = [taskPc EXCEPT ![i] = "done"]
    /\ UNCHANGED <<mainVars, pc, textVars, runVars, resVars, infos, messages, taskInfo, hist, printed>>

\* faulty variant: the messages are printed and infos is returned without waiting
JoinWithoutWait ==
    /\ pc = "wait"
    /\ printed' = PrintedOf(messages)
    /\ actionInfos' = infos
    /\ pc' = "returned"
    /\ UNCHANGED <<mainVars, content, occurrences, updated, runVars, resVars, taskPc, mu, cache, infos,
                   messages, taskInfo, hist>>

\* wg.Wait() returns once every goroutine is done; the messages are printed in
\* input order and infos is returned
Join ==
    /\ pc = "wait"
    /\ \A i \in Tasks : taskPc[i] = "done"
    /\ printed' = PrintedOf(messages)
    /\ actionInfos' = infos
    /\ pc' = "returned"
    /\ UNCHANGED <<mainVars, content, occurrences, updated, runVars, resVars, taskPc, mu, cache, infos,
                   messages, taskInfo, hist>>

\* main, after getActionInfosForOccurrences has returned: the rewrite
\* (updateContent) and the preview of the planned changes
OrchRewrite ==
    /\ pc = "returned"
    /\ Len(actionInfos) # 0
    /\ updated' = UpdateContent(content, occurrences, actionInfos)
    /\ pc' = "rewritten"
    /\ UNCHANGED <<mainVars, content, occurrences, actionInfos, runVars, resVars, orchVars>>

NextOrch ==
    \/ \E i \in Tasks : Lock(i) \/ Lookup(i) \/ WriteHit(i) \/ Resolve(i) \/ Store(i)
    \/ Join
    \/ OrchRewrite

SpecOrch == InitOrch /\ [][NextOrch]_vars

\* the passes followed to their end: documents of lines of two repositories
OrchLiveDocs ==
    {JoinLines(ls) : ls \in UNION {[1..n -> {LineAB210, LineAC210}] : n \in 1..MaxTasks}}

InitOrchLive == InitOrch /\ content \in OrchLiveDocs

\* the call of resolveActionForPolicy of goroutine i returns
ResolveReturns(i) ==
    /\ i \in Tasks
    /\ taskPc[i] = "resolve"
    /\ taskPc' = [taskPc EXCEPT ![i] = "lock2"]

\* the steps of goroutine i around the cache and its slot
TaskNext(i) ==
    /\ i \in Tasks
    /\ (Lock(i) \/ Lookup(i) \/ WriteHit(i) \/ Store(i))

\* the pass with the scheduler running every goroutine that can take a step, every
\* call of the resolver returning, and main going on once wg.Wait() can return
SpecOrchLive ==
    /\ InitOrchLive
    /\ [][NextOrch]_vars
    /\ \A i \in 1..MaxTasks : WF_vars(TaskNext(i)) /\ WF_taskPc(ResolveReturns(i))
    /\ WF_vars(Join)

---------------------------------------------------------------------------
(* Claims about getActionInfosForOccurrences *)

\* what resolving the occurrence alone produces, the hosting API being out of
\* order (down) or not
AloneInfo(o, down) ==
    ResolveActionForPolicy(ViewOf(api, down), o.Owner, o.Repo, o.RequestedRef,
                           expandMajorFlag, effectivePolicy)

IsOutcomeOf(info, o) == \E down \in BOOLEAN : info = AloneInfo(o, down)

SameLookup(o1, o2) ==
    o1.Owner = o2.Owner /\ o1.Repo = o2.Repo /\ o1.RequestedRef = o2.RequestedRef

\* C5: the list returned has the length of the input and result i carries the
\* owner and repo of occurrence i and is an outcome of resolving occurrence i
\* under the run's policy, whatever the interleaving of the goroutines.
C5_IndexAligned ==
    pc = "returned" =>
        /\ Len(actionInfos) = Len(occurrences)
        /\ \A i \in Tasks :
              /\ actionInfos[i].Owner = occurrences[i].Owner
              /\ actionInfos[i].Repo = occurrences[i].Repo
              /\ IsOutcomeOf(actionInfos[i], occurrences[i])

\* the keys of the pass tell the lookups apart
KeysUnambiguous ==
    \A i, j \in Tasks :
        KeyOf(occurrences[i]) = KeyOf(occurrences[j]) => SameLookup(occurrences[i], occurrences[j])

\* C5 holds of the passes whose keys tell the lookups apart
C5_AlignedWhenKeysUnambiguous == KeysUnambiguous => C5_IndexAligned

\* C6: when the resolution of occurrence i has failed, every occurrence j with
\* another cache key ends the pass with exactly one resolution, which is an
\* outcome of resolving occurrence j alone; a finished goroutine does not hold
\* the mutex.
C6_FailureIsolation ==
    /\ \A i \in Tasks : taskPc[i] = "done" => mu # i
    /\ pc = "returned" =>
          \A i, j \in Tasks :
              (actionInfos[i].Error # NoError
                  /\ KeyOf(occurrences[j]) # KeyOf(occurrences[i]))
              => /\ hist[j].hit # hist[j].resolved
                 /\ IsOutcomeOf(actionInfos[j], occurrences[j])

\* C6 holds of the passes whose keys tell the lookups apart
C6_IsolatedWhenKeysUnambiguous == KeysUnambiguous => C6_FailureIsolation

\* C7: among the occurrences of a pass with the same (owner, repo, policy,
\* requestedRef), no two goroutines both run the resolver, unless a resolution
\* of that lookup failed (a failure is not served from the cache).
C7_ResolvedOncePerKey ==
    \A i, j \in Tasks :
        (/\ i # j
         /\ SameLookup(occurrences[i], occurrences[j])
         /\ hist[i].resolved /\ hist[j].resolved)
        => \/ taskInfo[i].Error # NoError
           \/ taskInfo[j].Error # NoError

\* C8: a lookup is a hit only on an entry of a successful resolution; a goroutine
\* that finds an entry of a failed resolution runs the resolver itself; and a
\* goroutine that ends with a failure has produced it with its own resolver call.
C8_FailuresNotCached ==
    \A i \in Tasks :
        /\ hist[i].hit => taskInfo[i].Error = NoError /\ ~hist[i].resolved
        /\ hist[i].sawFailed => ~hist[i].hit /\ (taskPc[i] = "resolve" \/ hist[i].resolved)
        /\ (taskPc[i] = "done" /\ infos[i].Error # NoError)
              => /\ hist[i].resolved
                 /\ infos[i] = taskInfo[i]
                 /\ infos[i] = AloneInfo(occurrences[i], hist[i].down)

\* a goroutine found the entry of a failed resolution of its key, ran the
\* resolver again and succeeded, while the failure stays with the other goroutine
C8_Witness ==
    /\ pc = "returned"
    /\ Len(occurrences) = 2
    /\ SameLookup(occurrences[1], occurrences[2])
    /\ hist[2].sawFailed /\ hist[2].resolved
    /\ actionInfos[2].Error = NoError
    /\ actionInfos[1].Error # NoError

---------------------------------------------------------------------------
(* Spec: the pipeline of main (extract, resolve every occurrence, rewrite)  *)
(* run twice, the second time on the document the first run wrote, with the *)
(* hosting API giving the same answers.                                     *)

\* the resolutions of a pass, index for index, the API answering the same to
\* every goroutine
ResolveAll(a, occs, expandMajor, policy) ==
    [i \in 1..Len(occs) |->
        ResolveActionForPolicy(a, occs[i].Owner, occs[i].Repo, occs[i].RequestedRef,
                               expandMajor, policy)]

\* the hosting API of the pipeline's runs: repository a/b with its latest
\* release, without a release, and with an annotated moving major tag
PipeApis ==
    {[a \in {ActionName(OwnerA, RepoB)} |-> r] :
        r \in {MkRepo(<<TagV300, TagV220, TagV210, TagV2>>, NoOdd, "missing",
                      [status |-> "ok", tag |-> TagV300], 0),
               MkRepo(<<TagV220, TagV210, TagV2>>, NoOdd, "missing",
                      [status |-> "notfound", tag |-> <<>>], 0),
               MkRepo(<<TagV300, TagV2, TagV220>>, TagV2, "annotated",
                      [status |-> "ok", tag |-> TagV300], 0)}}

InitPipeline ==
    /\ MainIdle
    /\ ResIdle
    /\ OrchIdle
    /\ pc = "run1"
    /\ content \in Docs
    /\ occurrences = <<>>
    /\ actionInfos = <<>>
    /\ updated = <<>>
    /\ api \in PipeApis
    /\ effectivePolicy \in Policies
    /\ expandMajorFlag \in BOOLEAN

\* updatedContent := updateContent(string(content), occurrences, actionInfos)
RunResolved(doc, occs, ais) ==
    /\ actionInfos' = ais
    /\ updated' = UpdateContent(doc, occs, ais)

\* occurrences := extractOccurrences(string(content)); actionInfos := ...
RunExtracted(doc, occs) ==
    /\ content' = doc
    /\ occurrences' = occs
    /\ RunResolved(doc, occs, ResolveAll(api, occs, expandMajorFlag, effectivePolicy))

\* one run of main on the workflow file: the first on the document, the second
\* on what the first run wrote
Run ==
    /\ pc \in {"run1", "run2"}
    /\ RunExtracted(IF pc = "run1" THEN content ELSE updated,
                    ExtractOccurrences(IF pc = "run1" THEN content ELSE updated))
    /\ pc' = IF pc = "run1" THEN "run2" ELSE "done"
    /\ UNCHANGED <<mainVars, runVars, resVars, orchVars>>

Next == Run

Spec == InitPipeline /\ [][Next]_vars

\* C1: the second run leaves the document of the first run as it is
\* (content: the document the second run read, updated: what it produced).
C1_Idempotent == pc = "done" => updated = content

\* C1 holds of the runs under the policies Major (latest) and Requested
C1_IdempotentUnlessSameMajor ==
    (pc = "done" /\ effectivePolicy # UpdatePolicySameMajor) => updated = content

---------------------------------------------------------------------------
(* Claims about the Requested policy and the Latest chain *)

\* the tag names the Requested branch tries for a ref: the ref, and for a bare
\* major without v also its v-prefixed form
PinNames(ref) ==
    IF IsMovingMajorTag(ref) /\ ref[1] # "v" THEN {ref, <<"v">> \o ref} ELSE {ref}

\* the ref is pinned as written: a tag of its names resolves and the commit is
\* what that tag's ref leads to, or the ref is a full commit id and is kept
PinnedAsWritten(r, ref, info) ==
    \/ \E n \in PinNames(ref) : Resolves(r, n) /\ CommitReached(r, n, info.SHA)
    \/ IsFullSHA(ref) /\ info.SHA = ref /\ info.Version = ref

PinnedOrFallback(r, ref, res, fell) ==
    /\ (\E n \in PinNames(ref) : Resolves(r, n))
          => /\ res.info.Error = NoError
             /\ ~fell
             /\ \E n \in PinNames(ref) : Resolves(r, n) /\ CommitReached(r, n, res.info.SHA)
             /\ Resolves(r, ref) => CommitReached(r, ref, res.info.SHA)
    /\ ((\A n \in PinNames(ref) : ~Resolves(r, n)) /\ IsFullSHA(ref))
          => /\ res.info.Error = NoError
             /\ ~fell
             /\ res.info.SHA = ref /\ res.info.Version = ref
    /\ ((\A n \in PinNames(ref) : ~Resolves(r, n)) /\ ~IsFullSHA(ref))
          => /\ fell
             /\ res.info = LatestChain(r, OwnerA, RepoB).info

FullTagsAt(r, m, c) ==
    {r.tags[i].name : i \in {j \in 1..Len(r.tags) :
                                /\ ParseSemver(r.tags[j].name).ok
                                /\ ParseSemver(r.tags[j].name).v[1] = m
                                /\ ~IsMovingMajorTag(r.tags[j].name)
                                /\ r.tags[j].sha = c}}

\* the listed semver-parseable tags of major m, the bare major tag included,
\* whose commit in the listing is c
SameCommitTagsAt(r, m, c) ==
    {r.tags[i].name : i \in {j \in 1..Len(r.tags) :
                                /\ ParseSemver(r.tags[j].name).ok
                                /\ ParseSemver(r.tags[j].name).v[1] = m
                                /\ r.tags[j].sha = c}}

\* a bare-major ref was resolved by the Requested branch itself
MajorPinned ==
    /\ pc = "resolved"
    /\ effectivePolicy = UpdatePolicyRequested
    /\ IsMovingMajorTag(reqRef)
    /\ \E n \in PinNames(reqRef) : Resolves(TheRepo, n)
    /\ result.info.Error = NoError
    /\ ~MadeCall(result.calls, "GetLatestRelease")

\* the version reported for a bare major pinned to commit info.SHA
ExpandedToFullTag(r, m, ref, expand, info) ==
    IF expand /\ FullTagsAt(r, m, info.SHA) # {}
    THEN info.Version \in FullTagsAt(r, m, info.SHA)
    ELSE info.Version \in PinNames(ref) /\ Resolves(r, info.Version)

\* C12: under Requested with a bare-major ref that resolves to commit C, the
\* version reported is a full version tag of the same major whose commit is C
\* when expandMajor is set and such a tag is listed, and the major tag name that
\* resolved otherwise (stated for listings that are served without error).
C12_ExpandsToFullTag ==
    (MajorPinned /\ TheRepo.listErrPage = 0)
    => ExpandedToFullTag(TheRepo, ParseMajor(reqRef).major, reqRef, expandMajorFlag,
                         result.info)

\* the first listed semver-parseable tag of major m whose commit in the listing is c
FirstSameCommitTag(r, m, c) ==
    r.tags[Min({j \in 1..Len(r.tags) : r.tags[j].name \in SameCommitTagsAt(r, m, c)})].name

\* what holds of the version reported for a pinned bare major: with expandMajor,
\* a listing served without error and a listed semver-parseable tag of the major
\* with the pinned commit, it is the first such tag of the listing (which is the
\* bare major tag itself when that is listed before the full version tags);
\* otherwise it is the major tag name that resolved or a tag of that commit
C12_FirstListedOfSameCommit ==
    MajorPinned
    => IF /\ expandMajorFlag
          /\ TheRepo.listErrPage = 0
          /\ SameCommitTagsAt(TheRepo, ParseMajor(reqRef).major, result.info.SHA) # {}
       THEN result.info.Version
               = FirstSameCommitTag(TheRepo, ParseMajor(reqRef).major, result.info.SHA)
       ELSE \/ result.info.Version \in PinNames(reqRef) /\ Resolves(TheRepo, result.info.Version)
            \/ result.info.Version
                  \in SameCommitTagsAt(TheRepo, ParseMajor(reqRef).major, result.info.SHA)

---------------------------------------------------------------------------
(* Claims about expandMajor *)

\* two resolutions agree on success or failure and on the commit
SameOutcome(a, b) == ((a.Error = NoError) <=> (b.Error = NoError)) /\ a.SHA = b.SHA

\* the text of document d from the "@" of occurrence o up to the next blank or
\* the end of the line
PinText(d, o) == Slice(d, o.ReplaceStart + 1, RunNotIn(d, o.ReplaceStart + 1, WS))

\* what the rewrite left after the "@" for the resolution info, other being the
\* resolution of the same occurrence under the opposite expandMajor
PinnedCommit(doc, occs, info, other) ==
    /\ SameOutcome(info, other)
    /\ Len(occs) = 1
    /\ info.Error = NoError =>
          /\ IsFullSHA(info.SHA)
          /\ PinText(updated, occs[1]) = info.SHA
          /\ PinText(UpdateContent(doc, occs, <<other>>), occs[1]) = info.SHA

\* C13: expandMajor changes the version reported only: resolving the occurrence
\* with the flag set and with it unset gives the same success or failure and the
\* same commit, and the text after the "@" in the rewritten document is that
\* commit id, never a tag name.
C13_ExpandMajorOnlyDisplay ==
    pc = "pinned" =>
        PinnedCommit(content, occurrences, result.info,
                     ResolveActionForPolicy(api, OwnerA, RepoB, reqRef,
                                            ~expandMajorFlag, effectivePolicy))

C13_Witness ==
    /\ pc = "pinned"
    /\ expandMajorFlag
    /\ reqRef = TagV2
    /\ result.info.Error = NoError
    /\ result.info.Version = TagV220
    /\ ResolveActionForPolicy(api, OwnerA, RepoB, reqRef, FALSE, effectivePolicy).Version = TagV2
    /\ updated = UsesAB \o <<"@">> \o ShaB \o <<" ", "#", " ">> \o TagV220

---------------------------------------------------------------------------
(* Claims about the Latest chain *)

\* the position of the latest-release request among the calls (0: not made)
ReleaseAt(calls) ==
    IF MadeCall(calls, "GetLatestRelease")
    THEN Min({i \in 1..Len(calls) : calls[i].op = "GetLatestRelease"})
    ELSE 0

\* the tag list was requested after call k
ListedAfter(calls, k) == \E i \in (k + 1)..Len(calls) : calls[i].op = "ListTags"

\* the names among the first n listed tags that parse as a version
ListedParseable(r, n) ==
    {r.tags[i].name : i \in {j \in 1..n : j <= Len(r.tags) /\ ParseSemver(r.tags[j].name).ok}}

\* the result of the Latest chain that went to the tag list: the highest version
\* among names, or the first tag when none parses
HighestOrFirst(r, names, info) ==
    info.Error = NoError =>
        IF names # {} THEN HighestOf(names, info.Version)
        ELSE info.Version = r.tags[1].name

\* the Latest chain of a resolution (info, calls) against r, the release request
\* being call k and rt the resolution of the release's tag; the tag list is asked
\* for only in the cases of `fallback`
LatestOrder(r, info, calls, k, rt, fallback) ==
    /\ \A i \in 1..Len(calls) : calls[i].op = "GetLatestRelease" => i = k
    /\ (r.release.status = "ok" /\ rt.err = NoError)
          => /\ info.Error = NoError
             /\ info.Version = r.release.tag
             /\ info.SHA = rt.sha
             /\ ~ListedAfter(calls, k)
    /\ ListedAfter(calls, k)
          => /\ \/ r.release.status \in fallback
                \/ r.release.status = "ok" /\ rt.err # NoError
             /\ HighestOrFirst(r, ListedParseable(r, PerPage), info)

\* C14: the Latest chain asks for the latest release first; when a release exists
\* and its tag resolves the result is that tag and its commit; the tag list is
\* asked for only after the release request answered not-found or the release's
\* tag did not resolve, and the result is then the highest semver-parseable tag
\* listed, or the first tag listed when none parses.
C14_LatestChainOrder ==
    pc = "resolved" =>
        /\ effectivePolicy = UpdatePolicyMajor => ReleaseAt(result.calls) = 1
        /\ ReleaseAt(result.calls) > 0 =>
              LatestOrder(TheRepo, result.info, result.calls, ReleaseAt(result.calls),
                          ResolveTagToCommitSHA(TheRepo, TheRepo.release.tag),
                          {"notfound"})

\* C14 holds once the release request that got no response at all counts among
\* the answers followed by the tag list
C14_OrderUnlessNoResponse ==
    pc = "resolved" =>
        /\ effectivePolicy = UpdatePolicyMajor => ReleaseAt(result.calls) = 1
        /\ ReleaseAt(result.calls) > 0 =>
              LatestOrder(TheRepo, result.info, result.calls, ReleaseAt(result.calls),
                          ResolveTagToCommitSHA(TheRepo, TheRepo.release.tag),
                          {"notfound", "net_error"})

\* C15: when the Latest chain falls back to the tag list, the version selected is
\* the highest semver-parseable version among all the tags of the repository, on
\* every page of the listing.
C15_HighestOfAllTags ==
    (/\ pc = "resolved"
     /\ ReleaseAt(result.calls) > 0
     /\ ListedAfter(result.calls, ReleaseAt(result.calls))
     /\ result.info.Error = NoError
     /\ ListedParseable(TheRepo, Len(TheRepo.tags)) # {})
    => HighestOf(ListedParseable(TheRepo, Len(TheRepo.tags)), result.info.Version)

\* what holds instead: the version is the highest among the tags of the first
\* page of the listing, the only page selectTagBySemverOrNewest requests
C15_HighestOfFirstPage ==
    (/\ pc = "resolved"
     /\ ReleaseAt(result.calls) > 0
     /\ ListedAfter(result.calls, ReleaseAt(result.calls))
     /\ result.info.Error = NoError)
    => /\ HighestOrFirst(TheRepo, ListedParseable(TheRepo, PerPage), result.info)
       /\ \A i \in (ReleaseAt(result.calls) + 1)..Len(result.calls) :
             result.calls[i].op = "ListTags" => result.calls[i].page = 1

---------------------------------------------------------------------------
(* Claims about API errors and annotated tags *)

\* the call was answered by an error other than not-found
FailedCall(r, c) ==
    CASE c.op = "GetRef"           -> GetRef(r, c.tag).status = "error"
      [] c.op = "GetTag"           -> GetTag(r, c.tag).status = "error"
      [] c.op = "ListTags"         -> r.listErrPage = c.page
      [] c.op = "GetLatestRelease" -> r.release.status \in {"http_error", "net_error"}
      [] OTHER                     -> FALSE

\* C16: when a hosting API call made while resolving the occurrence (get ref, get
\* tag object, list tags, get latest release) fails with an error other than
\* not-found, the resolution ends there as a failure: the failed call is the last
\* one made and no success is returned, under every policy.
C16_ApiErrorsTerminal ==
    pc = "resolved" =>
        \A i \in 1..Len(result.calls) :
            FailedCall(TheRepo, result.calls[i])
                => /\ result.info.Error # NoError
                   /\ i = Len(result.calls)

\* what holds instead: the error answer (with an HTTP response) of the
\* latest-release request ends the resolution as a failure
C16_ReleaseErrorTerminal ==
    (/\ pc = "resolved"
     /\ ReleaseAt(result.calls) > 0
     /\ TheRepo.release.status = "http_error")
    => /\ result.info.Error = "release error"
       /\ ReleaseAt(result.calls) = Len(result.calls)

\* the answer res of resolveTagToCommitSHA for a tag whose ref is a tag object:
\* the id returned is the commit the tag object tagObj targets
DereferencedTo(tagObj, res) ==
    /\ tagObj.status = "ok"
    /\ tagObj.type = "commit"
    /\ res.sha = tagObj.sha
    /\ res.sha # <<>>

\* C17: when resolveTagToCommitSHA succeeds for a tag whose ref points to a tag
\* object (annotated tag), the id returned is that of the underlying commit, never
\* the id of a tag object.
C17_AnnotatedDereferenced ==
    (/\ pc = "dereferenced"
     /\ result.res.err = NoError
     /\ GetRef(TheRepo, result.tag).type = "tag")
    => /\ DereferencedTo(GetTag(TheRepo, GetRef(TheRepo, result.tag).sha), result.res)
       /\ result.res.sha \notin DOMAIN TheRepo.tagObjs

\* what holds instead: the commit is returned when the tag object is served and
\* targets a commit; otherwise the id of the tag object itself is returned
C17_DereferencedWhenServed ==
    (/\ pc = "dereferenced"
     /\ GetRef(TheRepo, result.tag).status = "ok"
     /\ GetRef(TheRepo, result.tag).type = "tag")
    => /\ result.res.err = NoError
       /\ IF /\ GetTag(TheRepo, GetRef(TheRepo, result.tag).sha).status = "ok"
             /\ GetTag(TheRepo, GetRef(TheRepo, result.tag).sha).type = "commit"
          THEN result.res.sha = GetTag(TheRepo, GetRef(TheRepo, result.tag).sha).sha
          ELSE result.res.sha = GetRef(TheRepo, result.tag).sha

---------------------------------------------------------------------------
(* Claims about a requested ref that is a commit id *)

\* the resolution (info, calls) keeps the ref and the rewrite leaves the document
KeptAsPinned(ref, info, calls) ==
    /\ info.Error = NoError
    /\ info.Version = ref
    /\ info.SHA = ref
    /\ ~MadeCall(calls, "GetLatestRelease")
    /\ ~MadeCall(calls, "ListTags")
    /\ BuildRepls(occurrences, actionInfos, 1) = <<>>
    /\ updated = content

\* C18: under policy Requested a ref of the shape of a full commit id (40 hex
\* characters) that is not the name of an existing tag resolves to itself
\* (version = commit id = ref) without a request for the latest release or for the
\* tag list, and the rewrite makes no edit for the occurrence.
C18_CommitIdKept ==
    (/\ pc = "pinned"
     /\ effectivePolicy = UpdatePolicyRequested
     /\ IsFullSHA(reqRef)
     /\ ~Resolves(TheRepo, reqRef))
    => KeptAsPinned(reqRef, result.info, result.calls)

\* what holds instead: the commit id is kept when neither the ref nor, for a ref
\* of digits only, its v-prefixed form is the name of an existing tag
C18_KeptUnlessVPrefixedTag ==
    (/\ pc = "pinned"
     /\ effectivePolicy = UpdatePolicyRequested
     /\ IsFullSHA(reqRef)
     /\ \A n \in PinNames(reqRef) : ~Resolves(TheRepo, n))
    => KeptAsPinned(reqRef, result.info, result.calls)

---------------------------------------------------------------------------
(* main: flags, the workflow file, the confirmation prompt and the exit code *)

\* strings.ToLower
ToLower(s) ==
    [i \in 1..Len(s) |->
        IF \E k \in 1..Len(UpperLetters) : UpperLetters[k] = s[i]
        THEN LowerLetters[CHOOSE k \in 1..Len(UpperLetters) : UpperLetters[k] = s[i]]
        ELSE s[i]]

\* strings.TrimSpace
RECURSIVE TrimSpace(_)
TrimSpace(s) ==
    IF Len(s) > 0 /\ s[1] \in WS THEN TrimSpace(Tail(s))
    ELSE IF Len(s) > 0 /\ s[Len(s)] \in WS THEN TrimSpace(SubSeq(s, 1, Len(s) - 1))
    ELSE s

Policy_major == <<"m", "a", "j", "o", "r">>
Policy_latest_major == <<"l", "a", "t", "e", "s", "t", "-", "m", "a", "j", "o", "r">>
Policy_latest == <<"l", "a", "t", "e", "s", "t">>
Policy_same_major == <<"s", "a", "m", "e", "-", "m", "a", "j", "o", "r">>
Policy_stay_major == <<"s", "t", "a", "y", "-", "m", "a", "j", "o", "r">>
Policy_minor == <<"m", "i", "n", "o", "r">>
Policy_patch == <<"p", "a", "t", "c", "h">>
Policy_requested == <<"r", "e", "q", "u", "e", "s", "t", "e", "d">>
Policy_exact == <<"e", "x", "a", "c", "t">>
Policy_pin_requested == <<"p", "i", "n", "-", "r", "e", "q", "u", "e", "s", "t", "e", "d">>

\* faulty variant: the flag is compared as written, without TrimSpace
ParsePolicyUntrimmed(policyStr) ==
    IF ToLower(policyStr) \in {<<>>, Policy_major, Policy_latest_major, Policy_latest}
    THEN [policy |-> UpdatePolicyMajor, err |-> FALSE]
    ELSE IF ToLower(policyStr)
              \in {Policy_same_major, Policy_stay_major, Policy_minor, Policy_patch}
    THEN [policy |-> UpdatePolicySameMajor, err |-> FALSE]
    ELSE IF ToLower(policyStr) \in {Policy_requested, Policy_exact, Policy_pin_requested}
    THEN [policy |-> UpdatePolicyRequested, err |-> FALSE]
    ELSE [policy |-> UpdatePolicyMajor, err |-> TRUE]

\* parsePolicy: the switch on strings.ToLower(strings.TrimSpace(policyStr))
ParsePolicy(policyStr) ==
    IF ToLower(TrimSpace(policyStr)) \in {<<>>, Policy_major, Policy_latest_major, Policy_latest}
    THEN [policy |-> UpdatePolicyMajor, err |-> FALSE]
    ELSE IF ToLower(TrimSpace(policyStr))
              \in {Policy_same_major, Policy_stay_major, Policy_minor, Policy_patch}
    THEN [policy |-> UpdatePolicySameMajor, err |-> FALSE]
    ELSE IF ToLower(TrimSpace(policyStr))
              \in {Policy_requested, Policy_exact, Policy_pin_requested}
    THEN [policy |-> UpdatePolicyRequested, err |-> FALSE]
    ELSE [policy |-> UpdatePolicyMajor, err |-> TRUE]

\* faulty variant: every answer but the empty line confirms
PromptConfirmationUnlessEmpty(response) == TrimSpace(response) # <<>>

\* promptConfirmation: the line read from standard input confirms
PromptConfirmation(response) ==
    ToLower(TrimSpace(response)) \in {<<"y">>, <<"y", "e", "s">>}

\* nonInteractiveApply := *yesFlag || *writeFlag
NonInteractiveApply == yesFlag \/ writeFlag

\* faulty variant: the dry run always ends with exit code 0
DryRunExitAlwaysZero(same) == 0

\* the exit code of the dry run: return when nothing changes, else os.Exit(2)
DryRunExit(same) == IF same THEN 0 ELSE 2

Logged(what) == \E i \in 1..Len(log) : log[i] = what

\* os.Exit(code), or the return from main (code 0)
Exit(code) == pc' = "exited" /\ exitCode' = code

flagVars == <<yesFlag, writeFlag, dryRunFlag, nArg, token, stdin, policyFlag>>

\* the workflow files of the model: with a tag to pin, already pinned, with an
\* action without ref only, and without any action
MainDocs == {LineTag, LinePinned, LineNoAt, LineOther, JoinLines(<<LineTag, LinePinned>>)}

WorkflowFiles ==
    {[exists |-> FALSE, readable |-> FALSE, writable |-> FALSE, data |-> <<>>]}
    \cup {[exists |-> TRUE, readable |-> r, writable |-> w, data |-> d] :
             r \in BOOLEAN, w \in BOOLEAN, d \in MainDocs}

\* lines typed at the prompt
Answers == {<<"y">>, <<"y", "e", "s">>, <<"Y", "E", "S">>, <<" ", "y", "\t">>,
            <<"n">>, <<>>, <<"y", "e", "s", "s">>}

InitMain ==
    /\ ResIdle
    /\ OrchIdle
    /\ pc = "main"
    /\ content = <<>>
    /\ occurrences = <<>>
    /\ actionInfos = <<>>
    /\ updated = <<>>
    /\ api \in PipeApis
    /\ policyFlag \in {Policy_major, Policy_same_major, Policy_requested}
    /\ effectivePolicy = ParsePolicy(policyFlag).policy
    /\ expandMajorFlag = FALSE
    /\ yesFlag \in BOOLEAN
    /\ writeFlag \in BOOLEAN
    /\ dryRunFlag \in BOOLEAN
    /\ nArg \in 0..2
    /\ workflowFile \in WorkflowFiles
    /\ token \in BOOLEAN
    /\ stdin \in Answers
    /\ exitCode = -1
    /\ log = <<>>
    /\ actions = <<>>

\* flag.Parse() and the checks of the command line
MainFlags ==
    /\ pc = "main"
    /\ IF dryRunFlag /\ NonInteractiveApply THEN Exit(1)
       ELSE IF nArg # 1 THEN Exit(1)
       ELSE pc' = "stat" /\ UNCHANGED exitCode
    /\ UNCHANGED <<textVars, runVars, resVars, orchVars, flagVars, actions, workflowFile, log>>

\* os.Stat(workflowFile)
MainStat ==
    /\ pc = "stat"
    /\ log' = Append(log, "stat")
    /\ IF ~workflowFile.exists THEN Exit(1)
       ELSE pc' = "read" /\ UNCHANGED exitCode
    /\ UNCHANGED <<textVars, runVars, resVars, orchVars, flagVars, actions, workflowFile>>

\* content, err := os.ReadFile(workflowFile)
MainRead ==
    /\ pc = "read"
    /\ log' = Append(log, "read")
    /\ IF ~workflowFile.readable
       THEN Exit(1) /\ UNCHANGED content
       ELSE pc' = "extract" /\ content' = workflowFile.data /\ UNCHANGED exitCode
    /\ UNCHANGED <<occurrences, actionInfos, updated, runVars, resVars, orchVars, flagVars, actions,
                   workflowFile>>

\* actions := extractActions(...); occurrences := extractOccurrences(...)
\* faulty variant: the run goes on without any action
NoActionsIgnored(found) == FALSE

\* if len(actions) == 0
NoActions(found) == Len(found) = 0

MainExtract ==
    /\ pc = "extract"
    /\ actions' = ExtractActions(content)
    /\ occurrences' = ExtractOccurrences(content)
    /\ IF NoActions(ExtractActions(content))
       THEN log' = Append(log, "no actions") /\ Exit(1)
       ELSE pc' = "token" /\ UNCHANGED <<exitCode, log>>
    /\ UNCHANGED <<content, actionInfos, updated, runVars, resVars, orchVars, flagVars,
                   workflowFile>>

\* token, err := getGitHubToken()
MainToken ==
    /\ pc = "token"
    /\ log' = Append(log, "token")
    /\ IF ~token THEN Exit(1)
       ELSE pc' = "resolve" /\ UNCHANGED exitCode
    /\ UNCHANGED <<textVars, runVars, resVars, orchVars, flagVars, actions, workflowFile>>

\* actionInfos := getActionInfosForOccurrences(...) has returned ais
MainResolved(ais) ==
    /\ actionInfos' = ais
    /\ IF Len(ais) = 0 THEN Exit(1)
       ELSE pc' = "update" /\ UNCHANGED exitCode

MainResolve ==
    /\ pc = "resolve"
    /\ log' = Append(log, "api")
    /\ MainResolved(ResolveAll(api, occurrences, expandMajorFlag, effectivePolicy))
    /\ UNCHANGED <<content, occurrences, updated, runVars, resVars, orchVars, flagVars, actions,
                   workflowFile>>

\* updatedContent := updateContent(...) has returned u; the plan is printed; then
\* the dry run ends, an unchanged document ends the run, and otherwise the run
\* goes on to the prompt, or to the write when --yes/--write is set
MainUpdated(u) ==
    /\ updated' = u
    /\ IF dryRunFlag THEN Exit(DryRunExit(content = u))
       ELSE IF content = u THEN Exit(0)
       ELSE /\ pc' = IF NonInteractiveApply THEN "write" ELSE "prompt"
            /\ UNCHANGED exitCode

MainUpdate ==
    /\ pc = "update"
    /\ log' = Append(log, "plan")
    /\ MainUpdated(UpdateContent(content, occurrences, actionInfos))
    /\ UNCHANGED <<content, occurrences, actionInfos, runVars, resVars, orchVars, flagVars, actions,
                   workflowFile>>

\* promptConfirmation("Apply changes? [y/N] ")
MainPrompt ==
    /\ pc = "prompt"
    /\ log' = Append(log, "prompt")
    /\ IF PromptConfirmation(stdin) THEN pc' = "write" /\ UNCHANGED exitCode
       ELSE Exit(0)
    /\ UNCHANGED <<textVars, runVars, resVars, orchVars, flagVars, actions, workflowFile>>

\* os.WriteFile(workflowFile, []byte(updatedContent), 0644)
MainWrite ==
    /\ pc = "write"
    /\ IF workflowFile.writable
       THEN /\ workflowFile' = [workflowFile EXCEPT !.data = updated]
            /\ log' = Append(log, "write")
            /\ Exit(0)
       ELSE /\ UNCHANGED workflowFile
            /\ log' = Append(log, "write failed")
            /\ Exit(1)
    /\ UNCHANGED <<textVars, runVars, resVars, orchVars, flagVars, actions>>

NextMain ==
    \/ MainFlags \/ MainStat \/ MainRead \/ MainExtract \/ MainToken
    \/ MainResolve \/ MainUpdate \/ MainPrompt \/ MainWrite

SpecMain == InitMain /\ [][NextMain]_vars

---------------------------------------------------------------------------
(* Claims about --dry-run, the confirmation and the write *)

\* C19: with --dry-run the workflow file is never written and no confirmation is
\* asked for; a run that reached the rewrite ends with exit code 0 when the
\* rewritten content equals the original and with exit code 2 when it differs;
\* --dry-run together with --yes or --write ends with exit code 1 before the file
\* is looked at and before any API call.
C19_DryRun ==
    dryRunFlag =>
        /\ ~Logged("write")
        /\ ~Logged("write failed")
        /\ ~Logged("prompt")
        /\ pc \notin {"prompt", "write"}
        /\ Logged("read") /\ workflowFile.readable => workflowFile.data = content
        /\ (pc = "exited" /\ Logged("plan"))
              => exitCode = IF updated = content THEN 0 ELSE 2
        /\ NonInteractiveApply
              => /\ log = <<>>
                 /\ pc \in {"main", "exited"}
                 /\ pc = "exited" => exitCode = 1

C19_Witness ==
    /\ dryRunFlag
    /\ ~NonInteractiveApply
    /\ pc = "exited"
    /\ exitCode = 2
    /\ Logged("api")
    /\ updated # content
    /\ workflowFile.data = content
    /\ workflowFile.writable

\* the file was written under the conditions of the run: the content differs, and
\* --yes/--write was given and no prompt shown, or the prompt was confirmed
WrittenOnlyWhen(confirmed) ==
    Logged("write")
        => /\ updated # content
           /\ workflowFile.data = updated
           /\ \/ NonInteractiveApply /\ ~Logged("prompt")
              \/ ~NonInteractiveApply /\ Logged("prompt") /\ confirmed

\* the file is written at most once, and a run that ended without writing left
\* the file as it was read
WrittenAtMostOnce ==
    /\ Cardinality({i \in 1..Len(log) : log[i] = "write"}) <= 1
    /\ (Logged("read") /\ workflowFile.readable /\ ~Logged("write"))
          => workflowFile.data = content
    /\ (pc = "exited" /\ Logged("plan") /\ updated = content) => ~Logged("write")

\* C20 as claimed: without --dry-run the file is written at most once, and only if
\* the rewritten content differs and either --yes/--write was given (no prompt) or
\* the prompt was answered `y` or `yes`; any other answer leaves the file unchanged.
C20_WrittenOnlyOnYOrYes ==
    ~dryRunFlag =>
        /\ WrittenAtMostOnce
        /\ WrittenOnlyWhen(stdin \in {<<"y">>, <<"y", "e", "s">>})

\* C20 amended: without --dry-run the file is written at most once, and only if
\* the rewritten content differs and either --yes/--write was given (no prompt) or
\* the answer to the prompt is `y` or `yes` once surrounding white space is
\* removed and upper case is folded to lower case (`YES`, ` y ` confirm too); any
\* other answer, and any run whose content is unchanged, leaves the file unchanged.
C20_WrittenOnlyOnConfirmation ==
    ~dryRunFlag =>
        /\ WrittenAtMostOnce
        /\ WrittenOnlyWhen(ToLower(TrimSpace(stdin)) \in {<<"y">>, <<"y", "e", "s">>})

C20_Witness ==
    /\ ~dryRunFlag
    /\ ~NonInteractiveApply
    /\ pc = "exited"
    /\ exitCode = 0
    /\ stdin = <<"Y", "E", "S">>
    /\ Logged("prompt")
    /\ Logged("write")
    /\ workflowFile.data = updated
    /\ updated # content

---------------------------------------------------------------------------
(* Claims about a document without actions, and about the extractors *)

\* the text "uses:" occurs nowhere in the document
NoUsesIn(s) == \A p \in 0..(Len(s) - 1) : ~HasPrefixAt(s, p, UsesLit)

\* C21: when the document holds no action reference at all, the run ends with the
\* 'No actions' outcome and exit code 1, before any token lookup, hosting API
\* call, confirmation prompt or write of the file.
C21_NoActionsEndsRun ==
    /\ (Logged("read") /\ workflowFile.readable /\ NoUsesIn(workflowFile.data))
          => ExtractActions(content) = <<>>
    /\ (/\ pc \notin {"main", "stat", "read", "extract"}
        /\ Logged("read") /\ workflowFile.readable
        /\ ExtractActions(content) = <<>>)
          => /\ pc = "exited"
             /\ exitCode = 1
             /\ log = <<"stat", "read", "no actions">>
             /\ workflowFile.data = content
    /\ Logged("no actions") => ExtractActions(content) = <<>>

C21_Witness ==
    /\ pc = "exited"
    /\ exitCode = 1
    /\ content = LineOther
    /\ Logged("no actions")
    /\ token
    /\ nArg = 1

---------------------------------------------------------------------------
(* SpecExtract: extractOccurrences and extractActions applied to a document *)

LineNoSlash == UsesLit \o <<" ", "f", "o", "o">>
LineNoSpace == UsesLit \o OwnerA \o <<"/">> \o RepoB \o <<"@">> \o TagV2
LineTabs    == UsesLit \o <<"\t">> \o OwnerA \o <<"/">> \o RepoC \o <<"@">> \o TagV210
                   \o <<"\t", "#", "k">>

ExtractDocs ==
    {JoinLines(ls) :
        ls \in UNION {[1..n -> Lines \cup {LineNoSlash, LineNoSpace, LineTabs}] : n \in 0..MaxLines}}

InitExtract ==
    /\ MainIdle
    /\ RunIdle
    /\ ResIdle
    /\ OrchIdle
    /\ pc = "extract"
    /\ content \in ExtractDocs
    /\ occurrences = <<>>
    /\ actionInfos = <<>>
    /\ updated = <<>>

\* actions := extractActions(string(content))
DoExtractActions ==
    /\ pc = "extract"
    /\ actions' = ExtractActions(content)
    /\ pc' = "actions"
    /\ UNCHANGED <<textVars, runVars, resVars, orchVars, flagVars, workflowFile, exitCode, log>>

\* occurrences := extractOccurrences(string(content))
DoExtractOccurrences ==
    /\ pc = "actions"
    /\ occurrences' = ExtractOccurrences(content)
    /\ pc' = "extracted"
    /\ UNCHANGED <<mainVars, content, actionInfos, updated, runVars, resVars, orchVars>>

NextExtract == DoExtractActions \/ DoExtractOccurrences

SpecExtract == InitExtract /\ [][NextExtract]_vars

---------------------------------------------------------------------------
(* Claims about extractOccurrences and extractActions *)

\* where the inline comment behind offset e ends: blanks, "#", the rest of the
\* line; e itself when no comment follows
InlineCommentEnd(s, e) ==
    IF RunIn(s, e, {" ", "\t"}) < Len(s) /\ At(s, RunIn(s, e, {" ", "\t"})) = "#"
    THEN RunNotIn(s, RunIn(s, e, {" ", "\t"}), {"\n"})
    ELSE e

\* the spans of one occurrence in document s
WellFormedSpans(s, o) ==
    /\ 0 <= o.MatchStart
    /\ o.MatchStart <= o.ReplaceStart
    /\ o.ReplaceStart < o.ReplaceEnd
    /\ o.ReplaceEnd = o.MatchEnd
    /\ o.MatchEnd <= Len(s)
    /\ At(s, o.ReplaceStart) = "@"
    /\ o.RequestedRef # <<>>
    /\ Slice(s, o.ReplaceStart + 1, o.ReplaceStart + 1 + Len(o.RequestedRef)) = o.RequestedRef
    /\ o.ReplaceEnd >= InlineCommentEnd(s, o.ReplaceStart + 1 + Len(o.RequestedRef))

\* C22: for every occurrence of extractOccurrences, 0 <= matchStart <=
\* replaceStart < replaceEnd = matchEnd <= length of the document, the byte at
\* replaceStart is "@", the requested ref follows it, and the replace span
\* reaches over the trailing inline comment of the entry.
C22_SpansWellFormed ==
    pc = "extracted" =>
        \A i \in 1..Len(occurrences) : WellFormedSpans(content, occurrences[i])

C22_Witness ==
    /\ pc = "extracted"
    /\ Len(occurrences) = 2
    /\ occurrences[1].MatchStart > 0
    /\ occurrences[1].ReplaceEnd
          > occurrences[1].ReplaceStart + 1 + Len(occurrences[1].RequestedRef)
    /\ occurrences[2].ReplaceEnd
          = occurrences[2].ReplaceStart + 1 + Len(occurrences[2].RequestedRef)

\* the number of places of the document where the text lit begins
CountOf(s, lit) == Cardinality({p \in 0..(Len(s) - 1) : HasPrefixAt(s, p, lit)})

\* C23: extractOccurrences returns one occurrence per textual match, in document
\* order and never de-duplicated (the same owner/repo@ref written k times gives k
\* occurrences); for occurrences i < j, matchEnd of i <= matchStart of j, so the
\* spans are increasing and pairwise disjoint.
C23_OnePerMatchInOrder ==
    pc = "extracted" =>
        /\ \A i, j \in 1..Len(occurrences) :
              i < j => /\ occurrences[i].MatchEnd <= occurrences[j].MatchStart
                       /\ occurrences[i].MatchStart < occurrences[j].MatchStart
        /\ \A i \in 1..Len(occurrences) :
              /\ MatchAt(content, occurrences[i].MatchStart).ok
              /\ occurrences[i].MatchEnd = MatchAt(content, occurrences[i].MatchStart).idxs[2]
        \* no match is left out: a place where the expression matches lies in
        \* the span of a returned occurrence
        /\ \A p \in 0..(Len(content) - 1) :
              MatchAt(content, p).ok
                 => \E i \in 1..Len(occurrences) :
                       occurrences[i].MatchStart <= p /\ p < occurrences[i].MatchEnd
        /\ Len(occurrences) >= CountOf(content, LineTag)

C23_Witness ==
    /\ pc = "extracted"
    /\ content = JoinLines(<<LineTag, LineTag>>)
    /\ Len(occurrences) = 2
    /\ occurrences[1].Action = occurrences[2].Action
    /\ occurrences[1].RequestedRef = occurrences[2].RequestedRef

\* the lines of document s, as <<start, end>> offsets
LineSpans(s) ==
    {<<a, RunNotIn(s, a, {"\n"})>> : a \in {0} \cup {p + 1 : p \in {q \in 0..(Len(s) - 1) : At(s, q) = "\n"}}}

\* line l of s is an entry `uses: owner/repo` without ref, for the action name
BareEntry(s, l, name) == Slice(s, l[1], l[2]) = UsesLit \o <<" ">> \o name

\* the entry of line l is neither resolved nor rewritten, and it is listed
BareEntryListedNotPinned(l, name) ==
    /\ \A i \in 1..Len(occurrences) :
          occurrences[i].MatchStart < l[1] \/ occurrences[i].MatchStart >= l[2]
    /\ \E k \in 1..Len(actions) : actions[k] = name

\* C24: an entry `uses: owner/repo` without `@ref` gives no occurrence from
\* extractOccurrences (every occurrence has a non-empty requested ref and none
\* starts on the line of such an entry), while extractActions lists its
\* owner/repo among the discovered actions.
C24_BareEntryListedNotPinned ==
    pc = "extracted" =>
        /\ \A i \in 1..Len(occurrences) : occurrences[i].RequestedRef # <<>>
        /\ \A l \in LineSpans(content) :
              BareEntry(content, l, ActionName(OwnerA, RepoC))
                 => BareEntryListedNotPinned(l, ActionName(OwnerA, RepoC))

\* what holds instead: the entry is listed unless the line before it is a
\* `uses:` text without `/` and `@`, which the owner part of the expression
\* (`[^@/]+`, a class that contains the line break) joins with the entry
C24_ListedUnlessJoined ==
    pc = "extracted" =>
        /\ \A i \in 1..Len(occurrences) : occurrences[i].RequestedRef # <<>>
        /\ \A l \in LineSpans(content) :
              (/\ BareEntry(content, l, ActionName(OwnerA, RepoC))
               /\ \A k \in 1..Len(actions) : \A j \in 1..Len(actions[k]) : actions[k][j] # "\n")
                 => BareEntryListedNotPinned(l, ActionName(OwnerA, RepoC))

\* the characters of the documents in byte order, as sort.Strings compares them
ByteOrder ==
    <<"\t", "\n", " ", "#", "-", ".", "/", "0", "1", "2", "3", "4", "5", "6", "7", "8", "9",
      ":", "@", "A", "B", "C", "D", "E", "F", "G", "H", "I", "J", "K", "L", "M", "N", "O",
      "P", "Q", "R", "S", "T", "U", "V", "W", "X", "Y", "Z", "_",
      "a", "b", "c", "d", "e", "f", "g", "h", "i", "j", "k", "l", "m", "n", "o",
      "p", "q", "r", "s", "t", "u", "v", "w", "x", "y", "z", "|">>

ByteRank(c) == CHOOSE i \in 1..Len(ByteOrder) : ByteOrder[i] = c

\* a <= b in the order of Go strings
StringLeq(a, b) ==
    \/ /\ Len(a) <= Len(b)
       /\ \A i \in 1..Len(a) : a[i] = b[i]
    \/ \E i \in 1..Min({Len(a), Len(b)}) :
          /\ \A j \in 1..(i - 1) : a[j] = b[j]
          /\ ByteRank(a[i]) < ByteRank(b[i])

\* the owner/repo names matched in s
FoundNames(s) == {FindAllActionsFrom(s, 0)[i] : i \in 1..Len(FindAllActionsFrom(s, 0))}

\* index of the first match of name in s
FirstMatchOf(s, name) ==
    Min({i \in 1..Len(FindAllActionsFrom(s, 0)) : FindAllActionsFrom(s, 0)[i] = name})

\* every matched name is returned exactly once
EachOnce(s, as) ==
    /\ {as[k] : k \in 1..Len(as)} = FoundNames(s)
    /\ \A i \in 1..Len(as) : \A j \in 1..Len(as) : as[i] = as[j] => i = j

---------------------------------------------------------------------------
(* parsePolicy applied to the values of --policy *)

\* the words given to --policy in the model: the known names, and others
PolicyWords ==
    {Policy_major, Policy_latest_major, Policy_latest, Policy_same_major, Policy_stay_major,
     Policy_minor, Policy_patch, Policy_requested, Policy_exact, Policy_pin_requested,
     <<>>, <<"u", "n", "k", "n", "o", "w", "n", "-", "p", "o", "l", "i", "c", "y">>, <<"s", "a", "m", "e", " ", "m", "a", "j", "o", "r">>, <<"m", "a", "j", "o", "r", "s">>,
     <<"p", "i", "n">>, <<"l", "a", "t", "e", " ", "s", "t">>}

\* the word in upper case, and with an upper-case first letter
Upper(s) ==
    [i \in 1..Len(s) |->
        IF \E k \in 1..Len(LowerLetters) : LowerLetters[k] = s[i]
        THEN UpperLetters[CHOOSE k \in 1..Len(LowerLetters) : LowerLetters[k] = s[i]]
        ELSE s[i]]

Capitalised(s) == IF s = <<>> THEN s ELSE <<Upper(s)[1]>> \o Tail(s)

\* the flag values: a word in one of three spellings, with white space around it
PolicyFlags ==
    {pre \o w \o post :
        pre \in {<<>>, <<" ">>, <<"\t", " ">>},
        post \in {<<>>, <<"\n">>},
        w \in UNION {{x, Upper(x), Capitalised(x)} : x \in PolicyWords}}

InitPolicy ==
    /\ RunIdle
    /\ ResIdle
    /\ TextIdle
    /\ OrchIdle
    /\ pc = "policy"
    /\ yesFlag = FALSE /\ writeFlag = FALSE /\ dryRunFlag = FALSE /\ nArg = 1
    /\ workflowFile = <<>> /\ token = TRUE /\ stdin = <<>> /\ exitCode = -1 /\ log = <<>>
    /\ actions = <<>>
    /\ policyFlag \in PolicyFlags

\* effectivePolicy := UpdatePolicyMajor
\* if p, err := parsePolicy(*policyFlag); err == nil { effectivePolicy = p }
DoParsePolicy ==
    /\ pc = "policy"
    /\ pc' = "parsed"
    /\ result' = ParsePolicy(policyFlag)
    /\ effectivePolicy' = IF ParsePolicy(policyFlag).err THEN UpdatePolicyMajor
                          ELSE ParsePolicy(policyFlag).policy
    /\ UNCHANGED <<textVars, api, expandMajorFlag, reqRef, orchVars, mainVars>>

NextPolicy == DoParsePolicy

SpecPolicy == InitPolicy /\ [][NextPolicy]_vars

LatestWords == {<<>>, Policy_major, Policy_latest_major, Policy_latest}
SameMajorWords == {Policy_same_major, Policy_stay_major, Policy_minor, Policy_patch}
RequestedWords == {Policy_requested, Policy_exact, Policy_pin_requested}

\* C26: parsePolicy, on its input trimmed and in lower case, gives the Latest
\* policy for "", major, latest-major, latest, SameMajor for same-major,
\* stay-major, minor, patch and Requested for requested, exact, pin-requested,
\* each without error; every other string gives an error with the Latest value.
C26_ParsePolicyTable ==
    pc = "parsed" =>
        /\ ToLower(TrimSpace(policyFlag)) \in LatestWords
              => result = [policy |-> UpdatePolicyMajor, err |-> FALSE]
        /\ ToLower(TrimSpace(policyFlag)) \in SameMajorWords
              => result = [policy |-> UpdatePolicySameMajor, err |-> FALSE]
        /\ ToLower(TrimSpace(policyFlag)) \in RequestedWords
              => result = [policy |-> UpdatePolicyRequested, err |-> FALSE]
        /\ ToLower(TrimSpace(policyFlag)) \notin LatestWords \cup SameMajorWords \cup RequestedWords
              => result = [policy |-> UpdatePolicyMajor, err |-> TRUE]

\* ` Stay-major` followed by a line break gives SameMajor
C26_Witness ==
    /\ pc = "parsed"
    /\ policyFlag = <<" ", "S">> \o Tail(Policy_stay_major) \o <<"\n">>
    /\ result = [policy |-> UpdatePolicySameMajor, err |-> FALSE]

(* Claims about the join and the mutex of getActionInfosForOccurrences *)

\* the tasks whose resolution succeeded: the ones with a progress line
WithLine == {i \in Tasks : hist[i].resolved /\ infos[i].Error = NoError}

\* the lines are those of the tasks in T, in index order
InIndexOrder(lines, T) ==
    /\ Len(lines) = Cardinality(T)
    /\ \A i \in T :
          lines[Cardinality({j \in T : j <= i})] = MessageOf(occurrences[i], infos[i])

\* C27: while a task of the pass has not finished, no progress line is printed,
\* nothing is returned and the rewrite and the preview have not started; once
\* the pass has returned, the progress lines are those of the successful
\* resolutions in the order of the occurrence indices.
C27_JoinThenOrderedLines ==
    /\ (\E i \in Tasks : taskPc[i] # "done")
          => /\ pc = "wait"
             /\ printed = <<>>
             /\ actionInfos = <<>>
             /\ updated = <<>>
    /\ pc = "wait" => printed = <<>> /\ updated = <<>>
    /\ pc \in {"returned", "rewritten"} => InIndexOrder(printed, WithLine)

\* three occurrences, the second one without a line (failed or taken from the
\* cache): the lines of the first and the third are printed in that order
C27_Witness ==
    /\ pc = "rewritten"
    /\ Len(occurrences) = 3
    /\ WithLine = {1, 3}
    /\ printed = <<MessageOf(occurrences[1], infos[1]), MessageOf(occurrences[3], infos[3])>>
    /\ printed[1] # printed[2]

\* the tasks whose call of resolveActionForPolicy is in progress
Resolving == {i \in Tasks : taskPc[i] = "resolve"}

\* C28: no task holds the mutex of the cache while its call of
\* resolveActionForPolicy is in progress: the holder of the mutex is at its
\* lookup or at its store, so while no task is at one of these two steps the
\* mutex is free for the lookup of any task, whatever calls are in progress.
C28_MutexOnlyAroundCache ==
    /\ mu \in Tasks \cup {0}
    /\ \A i \in Resolving : mu # i
    /\ \A i \in Tasks : mu = i <=> taskPc[i] \in {"lookup", "store"}
    /\ \A j \in Tasks :
          (taskPc[j] = "lock" /\ \A k \in Tasks : taskPc[k] \notin {"lookup", "store"})
             => ENABLED Lock(j)

\* two calls in progress at once while a third task does its lookup
C28_Witness ==
    /\ Len(occurrences) = 3
    /\ Resolving = {1, 2}
    /\ taskPc[3] = "lookup"
    /\ mu = 3

(* Claims about the pagination of selectTagBySameMajor *)

\* page p of the listing holds a tag that parses as a version of major m
MajorOnPage(r, m, p) ==
    \E j \in ((p - 1) * PerPage + 1)..(p * PerPage) :
        /\ j <= Len(r.tags)
        /\ ParseSemver(r.tags[j].name).ok
        /\ ParseSemver(r.tags[j].name).v[1] = m

\* the pages of the listing requested by the calls
PagesRead(calls) == {calls[i].page : i \in {j \in 1..Len(calls) : calls[j].op = "ListTags"}}

\* the condition of the early stop at page p
StopsEarlyAt(r, m, p) == ~MajorOnPage(r, m, p) /\ \E q \in 1..(p - 1) : MajorOnPage(r, m, q)

\* the pages 1..k were read, k being the last page or a page of the early stop,
\* and no page before k is one
PaginationOf(r, m, pages, k) ==
    /\ pages = 1..k
    /\ k <= NumPages(r)
    /\ k < NumPages(r) => StopsEarlyAt(r, m, k)
    /\ \A p \in 1..(k - 1) : ~StopsEarlyAt(r, m, p)
    /\ \A p \in 1..NumPages(r) :
          (\A q \in 1..p : ~MajorOnPage(r, m, q)) => p \in pages

\* C29: with every listing request answered, selectTagBySameMajor reads the
\* pages 1..k in order and stops at a page k before the last one only when page
\* k holds no tag of the major and an earlier page held one; it never stops at a
\* leading page without such a tag, and it reads on to the last page otherwise.
C29_EarlyStopOnlyAfterMatch ==
    (/\ pc = "selected"
     /\ TheRepo.listErrPage \notin PagesRead(result.res.calls))
    => \E k \in 1..NumPages(TheRepo) :
          PaginationOf(TheRepo, result.major, PagesRead(result.res.calls), k)

\* a listing of three pages read up to the second: the first page holds tags of
\* the major, the second none
C29_Witness ==
    /\ pc = "selected"
    /\ NumPages(TheRepo) = 3
    /\ TheRepo.listErrPage = 0
    /\ PagesRead(result.res.calls) = {1, 2}
    /\ MajorOnPage(TheRepo, result.major, 1)
    /\ ~MajorOnPage(TheRepo, result.major, 2)
    /\ MajorOnPage(TheRepo, result.major, 3)

---------------------------------------------------------------------------
(* SpecSpans: updateContent on occurrences whose spans are arbitrary *)

\* occurrences handed to updateContent
MaxSpans == 3

SpanDoc == <<"a", "b", "c", "d", "e">>

\* an occurrence of which updateContent reads only the span and the ref
SpanOccurrence(a, b) ==
    [Owner        |-> OwnerA,
     Repo         |-> RepoB,
     Action       |-> ActionName(OwnerA, RepoB),
     RequestedRef |-> TagV2,
     MatchStart   |-> 0,
     MatchEnd     |-> b,
     ReplaceStart |-> a,
     ReplaceEnd   |-> b,
     Line         |-> 1,
     Column       |-> 1]

\* the spans inside the document, the empty ones included
SpanOccurrences ==
    UNION {{SpanOccurrence(a, b) : b \in a..Len(SpanDoc)} : a \in 0..Len(SpanDoc)}

\* a successful resolution for occurrence i, with a text of its own
SpanInfo(i) ==
    [Owner |-> OwnerA, Repo |-> RepoB, Version |-> TagV2,
     SHA |-> Sha(CASE i = 1 -> "a" [] i = 2 -> "b" [] i = 3 -> "c" [] OTHER -> "d"),
     Error |-> NoError]

InitSpans ==
    /\ MainIdle
    /\ RunIdle
    /\ ResIdle
    /\ OrchIdle
    /\ pc = "rewrite"
    /\ content = SpanDoc
    /\ occurrences \in UNION {[1..n -> SpanOccurrences] : n \in 0..MaxSpans}
    /\ actionInfos = [i \in 1..Len(occurrences) |-> SpanInfo(i)]
    /\ updated = <<>>

\* sort.Slice(repls, less) with less comparing the starts: some permutation of
\* repls in ascending start order (the sort is not stable, so replacements of
\* equal start come in any order)
SortOutcomes(rs) ==
    {[k \in 1..Len(rs) |-> rs[p[k]]] :
        p \in {q \in Permutations(1..Len(rs)) :
                  \A i \in 1..(Len(rs) - 1) : rs[q[i]].start <= rs[q[i + 1]].start}}

\* updateContent with the outcome of the sort
DoUpdateSpans ==
    /\ pc = "rewrite"
    /\ \E rs \in SortOutcomes(BuildRepls(occurrences, actionInfos, 1)) :
          updated' = IF Len(rs) = 0 THEN content ELSE Splice(content, rs, 1, 0)
    /\ pc' = "rewritten"
    /\ UNCHANGED <<mainVars, content, occurrences, actionInfos, runVars, resVars, orchVars>>

NextSpans == DoUpdateSpans

SpecSpans == InitSpans /\ [][NextSpans]_vars

\* the candidates: the replacements of the occurrences with a non-empty span
SpanCandidates(occs, ainfos) ==
    SelectSeq([i \in 1..Len(occs) |->
                  [start |-> occs[i].ReplaceStart, end |-> occs[i].ReplaceEnd,
                   text |-> ReplText(ainfos[i])]],
              LAMBDA r : r.start < r.end)

\* the end of the last replacement of A before the k-th candidate (0 if none)
PrevEnd(rs, A, k) ==
    IF \E j \in A : j < k THEN rs[Max({j \in A : j < k})].end ELSE 0

\* A holds the candidates applied: the k-th one is applied exactly when it does
\* not start before the end of the one applied before it
AppliedIn(rs, A) == \A k \in 1..Len(rs) : k \in A <=> rs[k].start >= PrevEnd(rs, A, k)

Disjoint(rs, A) == \A i \in A : \A j \in A : i < j => rs[i].end <= rs[j].start

\* the output at offset p: the text of the replacement applied at p, then the
\* character at p when it lies outside every applied span
StitchedAt(s, rs, A, p) ==
    (IF \E k \in A : rs[k].start = p
     THEN rs[CHOOSE k \in A : rs[k].start = p].text ELSE <<>>)
    \o (IF p < Len(s) /\ \A k \in A : p < rs[k].start \/ p >= rs[k].end
        THEN <<At(s, p)>> ELSE <<>>)

\* the output of the offsets a..b, in order (by halves)
RECURSIVE StitchedRange(_, _, _, _, _)
StitchedRange(s, rs, A, a, b) ==
    IF a > b THEN <<>>
    ELSE IF a = b THEN StitchedAt(s, rs, A, a)
    ELSE StitchedRange(s, rs, A, a, (a + b) \div 2)
         \o StitchedRange(s, rs, A, (a + b) \div 2 + 1, b)

\* the output from offset p on
Stitched(s, rs, A, p) == StitchedRange(s, rs, A, p, Len(s))

\* C30: for occurrences with any spans inside the document, overlapping or
\* unordered, updateContent takes the candidates in ascending start order,
\* applies a candidate exactly when it does not start before the end of the one
\* applied before it, the applied spans are pairwise disjoint, and the output is
\* the document with every character outside the applied spans kept once, in
\* order, and each applied span replaced by its text.
C30_OverlapsSkipped ==
    pc = "rewritten" =>
        \E rs \in SortOutcomes(SpanCandidates(occurrences, actionInfos)) :
            \E A \in SUBSET (1..Len(rs)) :
                /\ AppliedIn(rs, A)
                /\ Disjoint(rs, A)
                /\ updated = Stitched(content, rs, A, 0)

\* given out of order, the spans [3,5), [0,2) and [1,4): the first two are
\* applied, the third overlaps and is skipped
C30_Witness ==
    /\ pc = "rewritten"
    /\ Len(occurrences) = 3
    /\ occurrences[1].ReplaceStart = 3 /\ occurrences[1].ReplaceEnd = 5
    /\ occurrences[2].ReplaceStart = 0 /\ occurrences[2].ReplaceEnd = 2
    /\ occurrences[3].ReplaceStart = 1 /\ occurrences[3].ReplaceEnd = 4
    /\ updated = ReplText(SpanInfo(2)) \o <<"c">> \o ReplText(SpanInfo(1))

---------------------------------------------------------------------------
(* Claims about the cache and the slots of getActionInfosForOccurrences *)

\* the step is the store of task i
StoreStep(i) == taskPc[i] = "store" /\ taskPc'[i] = "done"

\* C31: the cache is write-once per key: no task stores a key that already has
\* an entry, and an entry of a successful resolution is never replaced, in
\* particular not by the entry of a failed resolution of the same key.
C31_WriteOncePerKey ==
    [][/\ \A i \in Tasks : StoreStep(i) => KeyOf(occurrences[i]) \notin DOMAIN cache
       /\ \A k \in DOMAIN cache : cache[k].ok => (k \in DOMAIN cache' /\ cache'[k] = cache[k])]_vars

\* the part that fails by itself: a successful entry replaced by a failed one
C31_SuccessNeverReplacedByFailure ==
    [][\A k \in DOMAIN cache : cache[k].ok => (k \in DOMAIN cache' /\ cache'[k].ok)]_vars

\* what holds instead: entries are never removed, and a key is stored a second
\* time only by a task that did not find a successful entry at its lookup
C31_StoredAgainOnlyAfterMiss ==
    [][/\ DOMAIN cache \subseteq DOMAIN cache'
       /\ \A i \in Tasks : StoreStep(i) => (hist[i].resolved /\ ~hist[i].hit)
       /\ \A k \in DOMAIN cache :
             cache'[k] # cache[k] => \E i \in Tasks : StoreStep(i) /\ KeyOf(occurrences[i]) = k]_vars

\* the step is one of task i
TaskStep(i) == taskPc'[i] # taskPc[i]

\* the shared locations the next step of task i reads ("r") or writes ("w"):
\* the cache map at the lookup and at the store, its own slots otherwise
AccessesOf(i) ==
    CASE taskPc[i] = "lookup"   -> {<<"cache", 0, "r">>}
      [] taskPc[i] = "store"    -> {<<"cache", 0, "w">>}
      [] taskPc[i] = "writehit" -> {<<"infos", i, "w">>}
      [] taskPc[i] = "resolve"  -> {<<"infos", i, "w">>, <<"messages", i, "w">>}
      [] OTHER                  -> {}

\* two tasks are about to access the same location, one of them writing
Conflict(i, j) ==
    \E a \in AccessesOf(i) : \E b \in AccessesOf(j) :
        a[1] = b[1] /\ a[2] = b[2] /\ "w" \in {a[3], b[3]}

\* a step of task i changes no slot of another task, changes the cache only at
\* its store, and leaves the document and the occurrences alone
WritesOwnSlots(i) ==
    /\ \A j \in Tasks \ {i} : infos'[j] = infos[j] /\ messages'[j] = messages[j]
    /\ infos' # infos => <<"infos", i, "w">> \in AccessesOf(i)
    /\ messages' # messages => <<"messages", i, "w">> \in AccessesOf(i)
    /\ cache' # cache => <<"cache", 0, "w">> \in AccessesOf(i)
    /\ content' = content /\ occurrences' = occurrences

\* C32: task i writes only its own result slot and its own message slot, the
\* cache map is read and written only by the holder of the mutex, the document
\* and the occurrences do not change while tasks run, main reads the slots only
\* after every task is done, and no two tasks are ever about to access the same
\* location, one of them writing, unless both hold the mutex (which cannot be).
C32_NoDataRace ==
    /\ [](\A i \in Tasks :
             /\ (\E a \in AccessesOf(i) : a[1] = "cache") => mu = i
             /\ \A j \in Tasks \ {i} : Conflict(i, j) => (mu = i /\ mu = j))
    /\ [][/\ \A i \in Tasks : TaskStep(i) => WritesOwnSlots(i)
          /\ (\E i \in Tasks : taskPc[i] # "done")
                => (content' = content /\ occurrences' = occurrences /\ pc' = pc)]_vars

\* two tasks about to write their slots while a third one holds the mutex for
\* its store
C32_Witness ==
    /\ Len(occurrences) = 3
    /\ Resolving = {1, 2}
    /\ taskPc[3] = "store"
    /\ mu = 3
    /\ hist[3].resolved

\* some goroutine can take a step (a call in progress returns), or main can
CanStep ==
    \/ \E i \in Tasks :
          \/ taskPc[i] = "resolve"
          \/ ENABLED Lock(i) \/ ENABLED Lookup(i) \/ ENABLED WriteHit(i) \/ ENABLED Store(i)
    \/ ENABLED Join

\* C33: with every API call returning, every task of the pass eventually
\* finishes, the mutex is released after every acquisition (on the path of a
\* hit, of a success and of a failure), getActionInfosForOccurrences eventually
\* returns, and before it returns some step is always possible (no deadlock on
\* the mutex or on the join).
C33_PassTerminates ==
    /\ <>(pc = "returned")
    /\ (mu # 0) ~> (mu = 0)
    /\ [](pc = "wait" => CanStep)
    /\ [](pc # "wait" => (mu = 0 /\ \A i \in Tasks : taskPc[i] = "done"))

\* a pass that has returned after a hit, a successful and a failed resolution
C33_Witness ==
    /\ pc = "returned"
    /\ Len(occurrences) = 3
    /\ mu = 0
    /\ \E i \in Tasks : hist[i].hit
    /\ \E i \in Tasks : hist[i].resolved /\ infos[i].Error = NoError
    /\ \E i \in Tasks : hist[i].resolved /\ infos[i].Error # NoError

---------------------------------------------------------------------------
(* Claims about the shape of the resolutions *)

\* a success with a commit id, or a failure without commit id and version
WellFormedInfo(info) ==
    \/ info.Error = NoError /\ info.SHA # <<>>
    \/ info.Error # NoError /\ info.SHA = <<>> /\ info.Version = <<>>

\* C34: every resolution returned by resolveActionForPolicy is a success with no
\* error and a non-empty commit id, or a failure with an error and an empty
\* commit id and version; and for a failed resolution updateContent builds no
\* replacement and leaves the document as it is.
C34_ResolutionsWellFormed ==
    /\ pc \in {"resolved", "pinned"}
          => /\ WellFormedInfo(result.info)
             /\ result.info.Owner = OwnerA /\ result.info.Repo = RepoB
    /\ (pc = "pinned" /\ result.info.Error # NoError)
          => /\ BuildRepls(occurrences, actionInfos, 1) = <<>>
             /\ updated = content

\* the tag chosen has a ref without object id: the resolution is a failure and
\* the line of the occurrence is left alone
C34_Witness ==
    /\ pc = "pinned"
    /\ result.info.Error # NoError
    /\ result.info.SHA = <<>>
    /\ \E i \in 1..Len(result.calls) :
          /\ result.calls[i].op = "GetRef"
          /\ GetRef(TheRepo, result.calls[i].tag).status = "ok"
          /\ GetRef(TheRepo, result.calls[i].tag).sha = <<>>
    /\ occurrences # <<>>
    /\ updated = content

---------------------------------------------------------------------------
(* printPlannedChanges, and its agreement with updateContent *)

\* faulty variant: a commit equal to the current ref is listed too
ListedWithSameRef(occ, info) == info.Error = NoError /\ ~IsBlank(info.SHA)

\* the loop of printPlannedChanges prints a line for the occurrence: no error,
\* and not (oldRef == newRef || strings.TrimSpace(newRef) == "")
Listed(occ, info) ==
    /\ info.Error = NoError
    /\ ~(occ.RequestedRef = info.SHA \/ IsBlank(info.SHA))

\* the occurrences with a line in the preview (hadChange: the set is not empty)
PlannedChanges(occs, ainfos) ==
    {i \in 1..Len(occs) : i <= Len(ainfos) /\ Listed(occs[i], ainfos[i])}

\* the span of every occurrence with the text its resolution would put there
SpanTexts(occs, ainfos) ==
    [i \in 1..Len(occs) |->
        [start |-> occs[i].ReplaceStart,
         end   |-> occs[i].ReplaceEnd,
         text  |-> IF i <= Len(ainfos) THEN ReplText(ainfos[i]) ELSE <<>>]]

\* C35: the output of updateContent is the document with the spans of exactly
\* the occurrences listed in the preview replaced, each by a text other than the
\* one it had; so the preview lists no change exactly when the output is the
\* input document.
C35_PreviewAgreesWithRewrite ==
    pc = "rewritten" =>
        /\ updated = Stitched(content, SpanTexts(occurrences, actionInfos),
                              PlannedChanges(occurrences, actionInfos), 0)
        /\ \A i \in PlannedChanges(occurrences, actionInfos) :
              ReplText(actionInfos[i])
                 # Slice(content, occurrences[i].ReplaceStart, occurrences[i].ReplaceEnd)
        /\ PlannedChanges(occurrences, actionInfos) = {} <=> updated = content

\* two occurrences, the first one listed and replaced, the second one resolved
\* to the commit it is pinned to: not listed and left alone
C35_Witness ==
    /\ pc = "rewritten"
    /\ Len(occurrences) = 2
    /\ Len(actionInfos) = 2
    /\ PlannedChanges(occurrences, actionInfos) = {1}
    /\ actionInfos[2].Error = NoError
    /\ actionInfos[2].SHA = occurrences[2].RequestedRef
    /\ updated # content

---------------------------------------------------------------------------
(* Claims about occurrences of one lookup *)

\* C36: at the end of a pass, the occurrences with the same owner, repo, policy
\* and requested ref have the same resolution (outcome, commit id and version),
\* whatever the interleaving of the goroutines.
C36_SameKeySameResolution ==
    pc = "returned" =>
        \A i, j \in Tasks :
            SameLookup(occurrences[i], occurrences[j]) => actionInfos[i] = actionInfos[j]

\* what holds instead: they have the same resolution in the passes during which
\* the hosting API answers every goroutine the same and whose cache keys tell
\* the lookups apart
C36_SameWhenApiSteady ==
    (pc = "returned" /\ KeysUnambiguous /\ \A i \in Tasks : ~hist[i].down) =>
        \A i, j \in Tasks :
            SameLookup(occurrences[i], occurrences[j]) => actionInfos[i] = actionInfos[j]

---------------------------------------------------------------------------
(* SpecLineCol: computeLineCol on the documents of the extractor *)

\* computeLineCol called with an offset (from before the start to past the end
\* of the document), after the extraction
DoComputeLineCol ==
    /\ pc = "extracted"
    /\ \E offset \in (-2)..(Len(content) + 2) :
          result' = [offset |-> offset, lc |-> ComputeLineCol(content, offset)]
    /\ pc' = "linecol"
    /\ UNCHANGED <<mainVars, textVars, runVars, reqRef, orchVars>>

NextLineCol == DoExtractActions \/ DoExtractOccurrences \/ DoComputeLineCol

SpecLineCol == InitExtract /\ [][NextLineCol]_vars

\* the offset clamped into [0, length]
Clamped(s, offset) == Max({0, Min({offset, Len(s)})})

\* the offsets of the line breaks before offset off
BreaksBefore(s, off) == {i \in 0..(off - 1) : At(s, i) = "\n"}

\* line and column as the claim states them
LineColOf(s, off) ==
    [line |-> 1 + Cardinality(BreaksBefore(s, off)),
     col  |-> off - (IF BreaksBefore(s, off) = {} THEN -1 ELSE Max(BreaksBefore(s, off)))]

\* C37: computeLineCol clamps the offset into [0, length] and returns 1-based
\* values: the line is 1 + the number of line breaks before the offset, the
\* column the offset minus the index of the last line break before it (-1 when
\* there is none); line and column of an occurrence are those of the start of
\* its owner/repo text.
C37_LineColOfOffset ==
    /\ pc = "linecol"
          => /\ result.lc = LineColOf(content, Clamped(content, result.offset))
             /\ result.lc.line >= 1 /\ result.lc.col >= 1
    /\ pc \in {"extracted", "linecol"}
          => \A i \in 1..Len(occurrences) :
                /\ occurrences[i].Line
                      = LineColOf(content, occurrences[i].ReplaceStart - Len(occurrences[i].Action)).line
                /\ occurrences[i].Column
                      = LineColOf(content, occurrences[i].ReplaceStart - Len(occurrences[i].Action)).col

\* a negative offset in a document of two lines whose second occurrence is on
\* line 2
C37_Witness ==
    /\ pc = "linecol"
    /\ result.offset < 0
    /\ result.lc = [line |-> 1, col |-> 1]
    /\ Len(occurrences) = 2
    /\ occurrences[2].Line = 2
    /\ occurrences[2].Column = Len(UsesLit) + 2

---------------------------------------------------------------------------
(* isMovingMajorTag, parseMajor and normalizeMajorRef on their own *)

\* the longest ref made of RefChars
MaxRefLen == 3

RefChars == {"v", "4", "0", ".", "-", "a"}

Ref_main        == <<"m", "a", "i", "n">>
Ref_v10         == <<"v", "1", "0">>
Ref_123         == <<"1", "2", "3">>
Ref_v4_2_2      == <<"v", "4", ".", "2", ".", "2">>
Ref_4_2_2       == <<"4", ".", "2", ".", "2">>
Ref_v1_0_0alpha == <<"v", "1", ".", "0", ".", "0", "-", "a", "l", "p", "h", "a">>
Ref_v4alpha     == <<"v", "4", "-", "a", "l", "p", "h", "a">>
Ref_v4_2_0plus  == <<"v", "4", ".", "2", ".", "0", "+", "b">>
Ref_1_2_3_4     == <<"1", ".", "2", ".", "3", ".", "4">>
Ref_invalid     == <<"i", "n", "v", "a", "l", "i", "d", ".", "v", "e", "r", "s", "i", "o", "n">>
Ref_v4newline   == <<"v", "4", "\n">>
\* a major number of 20 digits
Ref_20digits    == [i \in 1..20 |-> "9"]

\* the refs of the tests and every string of up to MaxRefLen characters of RefChars
MajorRefs ==
    UNION {[1..n -> RefChars] : n \in 0..MaxRefLen}
    \cup {Ref_main, Ref_v10, Ref_123, Ref_v4_2_2, Ref_4_2_2, Ref_v1_0_0alpha, Ref_v4alpha,
          Ref_v4_2_0plus, Ref_1_2_3_4, Ref_invalid, Ref_v4newline, Ref_20digits,
          <<"v">> \o Ref_20digits, ShaA, ShaDigits, Sha("1"), TagVDigits}

InitRefs ==
    /\ MainIdle
    /\ RunIdle
    /\ TextIdle
    /\ OrchIdle
    /\ pc = "ref"
    /\ reqRef \in MajorRefs
    /\ result = <<>>

DoIsMovingMajorTag ==
    /\ pc = "ref"
    /\ pc' = "moving"
    /\ result' = [moving |-> IsMovingMajorTag(reqRef)]
    /\ UNCHANGED <<textVars, runVars, reqRef, orchVars, mainVars>>

DoParseMajor ==
    /\ pc = "ref"
    /\ pc' = "major"
    /\ result' = ParseMajor(reqRef)
    /\ UNCHANGED <<textVars, runVars, reqRef, orchVars, mainVars>>

DoNormalizeMajorRef ==
    /\ pc = "ref"
    /\ pc' = "normalized"
    /\ result' = [ref |-> NormalizeMajorRef(reqRef)]
    /\ UNCHANGED <<textVars, runVars, reqRef, orchVars, mainVars>>

NextRefs == DoIsMovingMajorTag \/ DoParseMajor \/ DoNormalizeMajorRef

SpecRefs == InitRefs /\ [][NextRefs]_vars

\* the digits of a ref after its optional leading v
MajorDigits(ref) == IF ref # <<>> /\ Head(ref) = "v" THEN Tail(ref) ELSE ref
\* an optional leading v followed by one or more digits
BareMajor(ref) ==
    /\ MajorDigits(ref) # <<>>
    /\ \A i \in 1..Len(MajorDigits(ref)) : MajorDigits(ref)[i] \in Digits
\* the digit strings whose number fits the integers of the model checker
Computable(ds) == Len(StripZeros(ds)) <= 9

MovingExactlyBareMajor == pc = "moving" => (result.moving <=> BareMajor(reqRef))

NormalizedOnce ==
    pc = "normalized"
    => /\ result.ref = (IF reqRef # <<>> /\ Head(reqRef) = "v" THEN reqRef ELSE <<"v">> \o reqRef)
       /\ NormalizeMajorRef(result.ref) = result.ref

\* C38: isMovingMajorTag holds exactly for an optional leading v followed by one
\* or more digits; parseMajor returns (0, false) for a 40-hex commit id, (N, true)
\* for any other bare-major ref with number N, (major component, true) for a ref
\* that parses as a semantic version and (0, false) for every other ref;
\* normalizeMajorRef adds a leading v only when it is missing and is idempotent.
C38_MajorRefTable ==
    /\ MovingExactlyBareMajor
    /\ NormalizedOnce
    /\ pc = "major"
       => IF IsFullSHA(reqRef) THEN result = [ok |-> FALSE, major |-> 0]
          ELSE IF BareMajor(reqRef)
          THEN /\ result.ok
               /\ Computable(MajorDigits(reqRef)) => result.major = NatOf(MajorDigits(reqRef))
          ELSE IF ParseSemver(reqRef).ok
          THEN result = [ok |-> TRUE, major |-> ParseSemver(reqRef).v[1]]
          ELSE result = [ok |-> FALSE, major |-> 0]

\* what holds instead: a bare-major ref, commit id of digits or not, gives
\* (N, true) when N fits the integers of strconv.Atoi and (0, false) when not
C38_TableWhenNumberFits ==
    /\ MovingExactlyBareMajor
    /\ NormalizedOnce
    /\ pc = "major"
       => IF BareMajor(reqRef)
          THEN IF Len(StripZeros(MajorDigits(reqRef))) <= MaxIntDigits
               THEN /\ result.ok
                    /\ Computable(MajorDigits(reqRef))
                       => result.major = NatOf(MajorDigits(reqRef))
               ELSE result = [ok |-> FALSE, major |-> 0]
          ELSE IF ParseSemver(reqRef).ok
          THEN result = [ok |-> TRUE, major |-> ParseSemver(reqRef).v[1]]
          ELSE result = [ok |-> FALSE, major |-> 0]

\* the refs of the tests, with their expected answers
C38_TestTable ==
    /\ ParseMajor(Ref_v10) = [ok |-> TRUE, major |-> 10]
    /\ ParseMajor(Ref_123) = [ok |-> TRUE, major |-> 123]
    /\ ParseMajor(Ref_v4_2_2) = [ok |-> TRUE, major |-> 4]
    /\ ParseMajor(Ref_4_2_2) = [ok |-> TRUE, major |-> 4]
    /\ ParseMajor(Ref_v1_0_0alpha) = [ok |-> TRUE, major |-> 1]
    /\ ParseMajor(Ref_v4alpha) = [ok |-> TRUE, major |-> 4]
    /\ ParseMajor(Ref_main) = [ok |-> FALSE, major |-> 0]
    /\ ParseMajor(Ref_invalid) = [ok |-> FALSE, major |-> 0]
    /\ ParseMajor(<<>>) = [ok |-> FALSE, major |-> 0]
    /\ ParseMajor(<<"v">>) = [ok |-> FALSE, major |-> 0]
    /\ ParseMajor(<<"v", "0">>) = [ok |-> TRUE, major |-> 0]
    /\ ParseMajor(ShaA) = [ok |-> FALSE, major |-> 0]
    /\ ~IsMovingMajorTag(Ref_v4alpha) /\ ~IsMovingMajorTag(Ref_v4newline)
    /\ ~IsMovingMajorTag(ShaA) /\ IsMovingMajorTag(Ref_v10)

\* parseMajor has answered for a commit id made of digits
C38_DigitCommitId == pc = "major" /\ IsFullSHA(reqRef) /\ BareMajor(reqRef)
===========================================================================
